---------------------------- MODULE Spec2Model ----------------------------
(***************************************************************************)
(* Model of the game-list extraction engine (src/extract_games.py).        *)
(*                                                                         *)
(* Python strings are TLA+ strings; a dict is a function whose DOMAIN is   *)
(* the set of keys that are present; a list is a sequence.                 *)
(***************************************************************************)
EXTENDS Integers, Sequences, FiniteSets, TLC

VARIABLES
    pc,             \* the place of the running operation
    games,          \* deduplicate_games: its argument
    pos,            \* deduplicate_games: how many records the loop has taken
    seen,           \* deduplicate_games: key -> the record stored for it
    result,         \* deduplicate_games: the list it builds and returns
    replaced,       \* deduplicate_games: the keys whose record was replaced (lines 618-621)
    kept,           \* deduplicate_games: the keys for which an incoming record was dropped
    game,           \* normalize_game_data: its argument
    normalized,     \* normalize_game_data: the record it returns
    the_table,      \* a table parser: its argument
    the_structure,  \* parse_game_table: structure
    row_idx,        \* a table parser: the row its loop is at (1-based)
    parsed,         \* a table parser: the list games it builds and returns
    out,            \* the parsed records, normalized and deduplicated
    html_files,     \* main: the files of the html folder, sorted: path and document
    console_files,  \* main: the files grouped by console, the consoles sorted
    console_idx,    \* main: the console its loop is at
    file_idx,       \* main: the file of the console its loop is at
    console_tables, \* main: the tables of the console, [name, games] in insertion order
    table_idx,      \* main: the table of the console its loop is at
    all_games,      \* main: all_games of the console
    database,       \* main: console -> the list written to database/<console>.json
    soup,           \* find_game_tables: the tables of the document, in document order
    tables_found,   \* find_game_tables: the list it returns
    date_cell,      \* parse_date_cell: its argument cell
    date_result,    \* parse_date_cell: the string it returns
    old_files,      \* build_site: files of the database directory that main did not write
    all_data,       \* build_site.load_all_games: all_data, console -> games and count
    json_files,     \* check_duplicates: the files of the database, path and games
    results         \* check_duplicates.find_duplicates_across_files: results

dedupVars == << games, pos, seen, result, replaced, kept >>

normVars == << game, normalized >>

tableVars == << the_table, the_structure, row_idx, parsed, out >>

mainVars ==
    << html_files, console_files, console_idx, file_idx, console_tables, table_idx,
       all_games, database >>

findVars == << soup, tables_found >>

dateVars == << date_cell, date_result >>

siteVars == << old_files, all_data >>

checkVars == << json_files, results >>

vars ==
    << pc, dedupVars, normVars, tableVars, mainVars, findVars, dateVars, siteVars,
       checkVars >>

(***************************************************************************)
(* str helpers                                                             *)
(***************************************************************************)

UpperChars == "ABCDEFGHIJKLMNOPQRSTUVWXYZ"

LowerChars == "abcdefghijklmnopqrstuvwxyz"

Digits == {"0", "1", "2", "3", "4", "5", "6", "7", "8", "9"}

\* s[i-1:j] of Python: the characters i..j of s (1-based, both included),
\* cut to the string as a slice is
Slice(s, i, j) ==
    LET lo == IF i < 1 THEN 1 ELSE i
        hi == IF j > Len(s) THEN Len(s) ELSE j
    IN  IF lo > hi THEN "" ELSE SubSeq(s, lo, hi)

\* the i-th character of s, as a one-character string ("" past the end)
Char(s, i) == Slice(s, i, i)

IsSpace(c) == c \in {" ", "\t", "\n"}

IsDigit(c) == c \in Digits

\* str.isdigit(): non-empty and every character a digit
IsDigitStr(s) == s # "" /\ \A i \in 1..Len(s) : IsDigit(Char(s, i))

\* upper-case letter -> lower-case letter
LowerTable ==
    [c \in { Char(UpperChars, i) : i \in 1..Len(UpperChars) } |->
        Char(LowerChars, CHOOSE i \in 1..Len(UpperChars) : Char(UpperChars, i) = c)]

LowerChar(c) == IF c \in DOMAIN LowerTable THEN LowerTable[c] ELSE c

RECURSIVE Lower(_)
\* str.lower()
Lower(s) == IF s = "" THEN "" ELSE LowerChar(Head(s)) \o Lower(Tail(s))

RECURSIVE LStrip(_)
LStrip(s) == IF s # "" /\ IsSpace(Head(s)) THEN LStrip(Tail(s)) ELSE s

RECURSIVE RStrip(_)
RStrip(s) ==
    IF s # "" /\ IsSpace(Char(s, Len(s))) THEN RStrip(Slice(s, 1, Len(s) - 1)) ELSE s

\* str.strip()
Strip(s) == RStrip(LStrip(s))

\* length of the longest prefix of s without white space
RECURSIVE WordLen(_)
WordLen(s) == IF s = "" \/ IsSpace(Head(s)) THEN 0 ELSE 1 + WordLen(Tail(s))

RECURSIVE SplitJoin(_)
\* ' '.join(s.split()): white-space runs collapsed to one blank, ends stripped
SplitJoin(s) ==
    LET t == LStrip(s)
        n == WordLen(t)
        rest == SplitJoin(Slice(t, n + 1, Len(t)))
    IN  IF t = "" THEN ""
        ELSE IF rest = "" THEN Slice(t, 1, n)
        ELSE Slice(t, 1, n) \o " " \o rest

\* s.startswith(p) at offset i (1-based): p occurs in s at position i
OccursAt(s, p, i) == i >= 1 /\ i + Len(p) - 1 <= Len(s) /\ Slice(s, i, i + Len(p) - 1) = p

\* p in s
Contains(s, p) == \E i \in 1..(Len(s) + 1) : OccursAt(s, p, i)

\* dict.get(k, '')
Get(d, k) == IF k \in DOMAIN d THEN d[k] ELSE ""

\* the dict without key k (dict.pop(k, None))
Without(d, k) == [x \in DOMAIN d \ {k} |-> d[x]]

\* the dict d with d[k] = v
Put(d, k, v) == (k :> v) @@ d

EmptyDict == [k \in {} |-> ""]

(***************************************************************************)
(* datetime.strptime / strftime                                            *)
(***************************************************************************)

DigitVal(c) == CHOOSE n \in 0..9 : Char("0123456789", n + 1) = c

RECURSIVE ToInt(_)
\* int(s) of a string of digits
ToInt(s) == IF s = "" THEN 0 ELSE 10 * ToInt(Slice(s, 1, Len(s) - 1)) + DigitVal(Char(s, Len(s)))

\* the month names %B accepts (matched case-insensitively)
MonthNames ==
    << "january", "february", "march", "april", "may", "june", "july",
       "august", "september", "october", "november", "december" >>

\* the order in which the %B regex tries the names: longest first
MonthTryOrder == << 9, 2, 11, 12, 1, 10, 8, 3, 4, 6, 7, 5 >>

IsLeap(y) == (y % 4 = 0 /\ y % 100 # 0) \/ y % 400 = 0

DaysInMonth(y, m) ==
    IF m = 2 THEN (IF IsLeap(y) THEN 29 ELSE 28)
    ELSE IF m \in {4, 6, 9, 11} THEN 30 ELSE 31

WordChars ==
    { Char(UpperChars, i) : i \in 1..Len(UpperChars) }
        \cup { Char(LowerChars, i) : i \in 1..Len(LowerChars) } \cup Digits \cup {"_"}

RECURSIVE SpaceRun(_)
\* how many white-space characters s starts with
SpaceRun(s) == IF s # "" /\ IsSpace(Head(s)) THEN 1 + SpaceRun(Tail(s)) ELSE 0

RECURSIVE WordRun(_)
\* how many \w characters s starts with
WordRun(s) == IF s # "" /\ Head(s) \in WordChars THEN 1 + WordRun(Tail(s)) ELSE 0

\* The candidates of one format directive at position i of s, in the order
\* the regex of _strptime tries them: each <<field, value, next position>>.
\* one and c2 are the characters at i and i + 1, two is both of them.
CandsAt(s, i, tok, one, c2, two) ==
    CASE tok = "%Y" ->
           IF i + 3 <= Len(s) /\ IsDigitStr(Slice(s, i, i + 3))
           THEN << <<"y", ToInt(Slice(s, i, i + 3)), i + 4>> >> ELSE << >>
      [] tok = "%m" ->
           (IF c2 # "" /\ ((one = "1" /\ c2 \in {"0", "1", "2"})
                           \/ (one = "0" /\ IsDigit(c2) /\ c2 # "0"))
            THEN << <<"m", ToInt(two), i + 2>> >> ELSE << >>)
           \o (IF IsDigit(one) /\ one # "0"
               THEN << <<"m", ToInt(one), i + 1>> >> ELSE << >>)
      [] tok = "%d" ->
           (IF c2 # "" /\ ((one = "3" /\ c2 \in {"0", "1"})
                           \/ (one \in {"1", "2"} /\ IsDigit(c2))
                           \/ (one = "0" /\ IsDigit(c2) /\ c2 # "0"))
            THEN << <<"d", ToInt(two), i + 2>> >> ELSE << >>)
           \o (IF IsDigit(one) /\ one # "0"
               THEN << <<"d", ToInt(one), i + 1>> >> ELSE << >>)
           \o (IF one = " " /\ IsDigit(c2) /\ c2 # "0"
               THEN << <<"d", ToInt(c2), i + 2>> >> ELSE << >>)
      [] tok = "%B" ->
           LET F[k \in 1..13] ==
                   IF k = 13 THEN << >>
                   ELSE (IF OccursAt(Lower(s), MonthNames[MonthTryOrder[k]], i)
                         THEN << <<"m", MonthTryOrder[k],
                                   i + Len(MonthNames[MonthTryOrder[k]])>> >>
                         ELSE << >>) \o F[k + 1]
           IN  F[1]
      [] tok \in {" ", "\\w+"} ->
           \* white space in a format is the regex \s+; both take the longest
           \* run first and give back one character at a time
           LET G[k \in 0..Len(s)] == IF k = 0 THEN << >> ELSE << <<"", 0, i + k>> >> \o G[k - 1]
           IN  G[IF tok = " " THEN SpaceRun(Slice(s, i, Len(s)))
                 ELSE WordRun(Slice(s, i, Len(s)))]
      [] tok = "\\d{1,2}" ->
           (IF IsDigit(one) /\ IsDigit(c2) THEN << <<"", 0, i + 2>> >> ELSE << >>)
           \o (IF IsDigit(one) THEN << <<"", 0, i + 1>> >> ELSE << >>)
      [] tok = "\\d{2}" ->
           IF IsDigit(one) /\ IsDigit(c2) THEN << <<"", 0, i + 2>> >> ELSE << >>
      [] tok = "\\d{4}" ->
           IF i + 3 <= Len(s) /\ IsDigitStr(Slice(s, i, i + 3))
           THEN << <<"", 0, i + 4>> >> ELSE << >>
      [] OTHER ->
           IF one = tok THEN << <<"", 0, i + 1>> >> ELSE << >>

DirectiveCands(s, i, tok) == CandsAt(s, i, tok, Char(s, i), Char(s, i + 1), Slice(s, i, i + 1))

RECURSIVE MatchFormat(_, _, _, _)
RECURSIVE TryCands(_, _, _, _)
\* re.match of the format's regex at position i: the first match in the regex's
\* priority order, as << [y, m, d, end] >>, or << >> when nothing matches
MatchFormat(s, i, toks, acc) ==
    IF toks = << >> THEN << [acc EXCEPT !.end = i] >>
    ELSE TryCands(s, DirectiveCands(s, i, Head(toks)), Tail(toks), acc)

\* the fields so far with the field of the candidate c
WithField(acc, c) ==
    CASE c[1] = "y" -> [acc EXCEPT !.y = c[2]]
      [] c[1] = "m" -> [acc EXCEPT !.m = c[2]]
      [] c[1] = "d" -> [acc EXCEPT !.d = c[2]]
      [] OTHER -> acc

\* a # << >> ? a : b
OrElse(a, b) == IF a # << >> THEN a ELSE b

TryCands(s, cands, toks, acc) ==
    IF cands = << >> THEN << >>
    ELSE OrElse(MatchFormat(s, Head(cands)[3], toks, WithField(acc, Head(cands))),
                TryCands(s, Tail(cands), toks, acc))

\* no field matched yet
NoFields == [y |-> 1900, m |-> 1, d |-> 1, end |-> 0]

\* the match r of a string of length n as a date, when it used up the string
\* and its fields are a date of the calendar
CheckedDate(r, n) ==
    IF r = << >> THEN << >>
    ELSE IF r[1].end # n + 1 THEN << >>
    ELSE IF r[1].y < 1 \/ r[1].d > DaysInMonth(r[1].y, r[1].m) THEN << >>
    ELSE << [y |-> r[1].y, m |-> r[1].m, d |-> r[1].d] >>

\* datetime.strptime(s, format): << [y, m, d] >>, or << >> for ValueError.
\* The regex must match at the start, the match must use up the string, and
\* the fields must be a date of the calendar.
Strptime(s, toks) == CheckedDate(MatchFormat(s, 1, toks, NoFields), Len(s))

FmtYmdDash == << "%Y", "-", "%m", "-", "%d" >>

FmtYmDash == << "%Y", "-", "%m" >>

FmtYmd == << "%Y", "%m", "%d" >>

FmtBdCommaY == << "%B", " ", "%d", ",", " ", "%Y" >>

FmtBdY == << "%B", " ", "%d", " ", "%Y" >>

FmtMdYSlash == << "%m", "/", "%d", "/", "%Y" >>

FmtBY == << "%B", " ", "%Y" >>

RECURSIVE SearchFrom(_, _, _)
\* the match m at position i, or else the search from the next position
MatchOrNext(s, toks, i, m) ==
    IF m # << >> THEN << Slice(s, i, m[1].end - 1) >> ELSE SearchFrom(s, toks, i + 1)

SearchFrom(s, toks, i) ==
    IF i > Len(s) + 1 THEN << >>
    ELSE MatchOrNext(s, toks, i, MatchFormat(s, i, toks, NoFields))

\* re.search(pattern, s): << group(0) >> of the leftmost match, or << >>
RegexSearch(s, toks) == SearchFrom(s, toks, 1)

\* the order of two datetimes: a number that grows with the date
DateOrd(dt) == dt.y * 10000 + dt.m * 100 + dt.d

RECURSIVE ZeroPad(_, _)
ZeroPad(n, width) ==
    IF width = 0 THEN "" ELSE ZeroPad(n \div 10, width - 1) \o Char("0123456789", (n % 10) + 1)

\* dt.strftime('%Y-%m-%d'), for the four-digit years the pages carry
StrftimeYmd(dt) == ZeroPad(dt.y, 4) \o "-" \o ZeroPad(dt.m, 2) \o "-" \o ZeroPad(dt.d, 2)

(***************************************************************************)
(* The parsed page.  A cell is its tag name, its scope, data-sort-value,   *)
(* colspan and rowspan attributes ("" when absent) and its child nodes in  *)
(* document order; a node is a text run or an <a>, <i> or <span> element   *)
(* with its text, whether it is styled display:none, and its               *)
(* data-sort-value (<< >> when absent).                                    *)
(***************************************************************************)

Node(tag, text) == [tag |-> tag, text |-> text, hidden |-> FALSE, sort |-> << >>]

Span(text, hidden, sort) == [tag |-> "span", text |-> text, hidden |-> hidden, sort |-> sort]

Cell(name, scope, kids) ==
    [name |-> name, scope |-> scope, sort |-> "", colspan |-> "", rowspan |-> "",
     kids |-> kids]

\* <td>text</td>
Td(text) == Cell("td", "", IF text = "" THEN << >> ELSE << Node("text", text) >>)

\* <th>text</th>
Th(text) == Cell("th", "", IF text = "" THEN << >> ELSE << Node("text", text) >>)

RECURSIVE ConcatText(_)
\* the texts of the nodes, joined
ConcatText(kids) == IF kids = << >> THEN "" ELSE Head(kids).text \o ConcatText(Tail(kids))

RECURSIVE ConcatStripped(_)
ConcatStripped(kids) ==
    IF kids = << >> THEN "" ELSE Strip(Head(kids).text) \o ConcatStripped(Tail(kids))

\* cell.get_text()
get_text(cell) == ConcatText(cell.kids)

\* cell.get_text(strip=True): every text run stripped, then joined
get_text_strip(cell) == ConcatStripped(cell.kids)

\* cell.find(tag): << the first such element >> or << >>
Find(cell, tag) ==
    LET hits == { i \in 1..Len(cell.kids) : cell.kids[i].tag = tag }
    IN  IF hits = {} THEN << >>
        ELSE << cell.kids[CHOOSE i \in hits : \A j \in hits : i <= j] >>

\* int(cell.get(attr, 1)) succeeds
IntAttrOk(a) == a = "" \/ IsDigitStr(Strip(a))

\* int(cell.get(attr, 1))
IntAttr(a) == IF a = "" THEN 1 ELSE ToInt(Strip(a))

(***************************************************************************)
(* clean_text, get_link_or_italic_text                                     *)
(***************************************************************************)

\* how many digits s starts with
RECURSIVE DigitRun(_)
DigitRun(s) == IF s # "" /\ IsDigit(Head(s)) THEN 1 + DigitRun(Tail(s)) ELSE 0

RECURSIVE RemoveCitations(_)
\* re.sub(r'\[\d+\]', '', text)
RemoveCitations(s) ==
    IF s = "" THEN ""
    ELSE LET n == DigitRun(Tail(s))
         IN  IF Head(s) = "[" /\ n >= 1 /\ Char(s, n + 2) = "]"
             THEN RemoveCitations(Slice(s, n + 3, Len(s)))
             ELSE Head(s) \o RemoveCitations(Tail(s))

RECURSIVE RemoveFootnotes(_)
\* re.sub(r'\(c\)|\(d\)|\(e\)|\(f\)', '', text)
RemoveFootnotes(s) ==
    IF s = "" THEN ""
    ELSE IF Slice(s, 1, 3) \in {"(c)", "(d)", "(e)", "(f)"}
         THEN RemoveFootnotes(Slice(s, 4, Len(s)))
         ELSE Head(s) \o RemoveFootnotes(Tail(s))

clean_text(text) ==
    IF text = "" THEN "" ELSE Strip(RemoveFootnotes(RemoveCitations(SplitJoin(text))))

get_link_or_italic_text(cell) ==
    LET link == Find(cell, "a")
        italic == Find(cell, "i")
    IN  IF link # << >> THEN clean_text(link[1].text)
        ELSE IF italic # << >> THEN clean_text(italic[1].text)
        ELSE clean_text(get_text(cell))

(***************************************************************************)
(* parse_date_cell                                                         *)
(***************************************************************************)

RECURSIVE StripZeros(_)
\* re.sub(r'^0+', '', s)
StripZeros(s) == IF s # "" /\ Head(s) = "0" THEN StripZeros(Tail(s)) ELSE s

\* the cell texts that stand for "no date" (the dash of the source is outside
\* the alphabet of the model's strings)
NoDateWords == {"unreleased", "tba", "tbd", "n/a", "na"}

\* date_patterns: the pattern searched and the format its match is parsed with
date_patterns ==
    << << << "\\w+", " ", "\\d{1,2}", ",", " ", "\\d{4}" >>, FmtBdCommaY >>,
       << << "\\w+", " ", "\\d{1,2}", " ", "\\d{4}" >>, FmtBdY >>,
       << << "\\d{1,2}", "/", "\\d{1,2}", "/", "\\d{4}" >>, FmtMdYSlash >>,
       << << "\\d{4}", "-", "\\d{2}", "-", "\\d{2}" >>, FmtYmdDash >>,
       << << "\\d{4}", "\\d{2}", "\\d{2}" >>, FmtYmd >>,
       << << "\\w+", " ", "\\d{4}" >>, FmtBY >> >>

\* << dt.strftime('%Y-%m-%d') >> when the string parsed
Formatted(dt) == IF dt = << >> THEN << >> ELSE << StrftimeYmd(dt[1]) >>

\* lines 145-151: a sort value of digits read as YYYYMMDD
CompactDate(sort_value) ==
    IF Len(sort_value) >= 8 /\ IsDigitStr(sort_value)
    THEN Strptime(Slice(sort_value, 1, 8), FmtYmd) ELSE << >>

\* lines 154-159: a sort value that starts like YYYY-MM-DD
DashedDate(sort_value) ==
    IF MatchFormat(sort_value, 1, date_patterns[4][1], NoFields) # << >>
    THEN Strptime(Slice(sort_value, 1, 10), FmtYmdDash) ELSE << >>

\* lines 172-178: a sort value whose first eight characters are digits
PrefixDate(span_value) ==
    IF Len(span_value) >= 8 /\ IsDigitStr(Slice(span_value, 1, 8))
    THEN Strptime(Slice(span_value, 1, 8), FmtYmd) ELSE << >>

\* the cell's own data-sort-value read as a date: << 'YYYY-MM-DD' >> or << >>
CellSortDate(cell) ==
    Formatted(OrElse(CompactDate(StripZeros(Strip(cell.sort))),
                     DashedDate(StripZeros(Strip(cell.sort)))))

\* the cell after span.decompose() of every display:none span
Decompose(cell) ==
    [cell EXCEPT !.kids = SelectSeq(cell.kids, LAMBDA n : ~(n.tag = "span" /\ n.hidden))]

RECURSIVE FindSortSpan(_)
\* cell.find('span', {'data-sort-value': True}) among the nodes
FindSortSpan(kids) ==
    IF kids = << >> THEN << >>
    ELSE IF Head(kids).tag = "span" /\ Head(kids).sort # << >> THEN << Head(kids) >>
    ELSE FindSortSpan(Tail(kids))

\* the data-sort-value of the span, read as a date
SpanValueDate(span_sort) ==
    IF span_sort = << >> THEN << >>
    ELSE Formatted(PrefixDate(StripZeros(Strip(span_sort[1].sort[1]))))

\* the data-sort-value of the first visible span that has one, read as a date
SpanSortDate(cell) == SpanValueDate(FindSortSpan(cell.kids))

RECURSIVE TryPatterns(_, _)
\* the date of the match, or else what the patterns that follow give
FirstParsed(dt, text, patterns) ==
    IF dt # << >> THEN StrftimeYmd(dt[1]) ELSE TryPatterns(text, patterns)

\* strptime of the match of a pattern, when there is one
ParsedMatch(match, format) == IF match = << >> THEN << >> ELSE Strptime(match[1], format)

\* the loop over date_patterns: the first pattern that is found in the text
\* and whose match parses decides
TryPatterns(text, patterns) ==
    IF patterns = << >> THEN ""
    ELSE FirstParsed(ParsedMatch(RegexSearch(text, Head(patterns)[1]), Head(patterns)[2]),
                     text, Tail(patterns))

\* lines 181-223: the date of the visible text
TextDate(text) ==
    IF text = "" \/ Lower(text) \in NoDateWords THEN ""
    ELSE TryPatterns(Strip(text), date_patterns)

\* lines 161-223: the cell without its hidden spans
VisibleDate(nested, visible) ==
    IF nested # << >> THEN nested[1] ELSE TextDate(clean_text(get_text(visible)))

\* own: what the data-sort-value of the cell gave
DateAfterSortValue(own, visible) ==
    IF own # << >> THEN own[1] ELSE VisibleDate(SpanSortDate(visible), visible)

parse_date_cell(cell) == DateAfterSortValue(CellSortDate(cell), Decompose(cell))

(***************************************************************************)
(* analyze_table_structure.  A table is its id, its class and its rows     *)
(* (table.find_all('tr')); a row is the sequence of its td and th cells.   *)
(***************************************************************************)

\* None, as the value of a column index
NoCol == -1

EmptyStructure ==
    [title_col |-> NoCol, developer_col |-> NoCol, publisher_col |-> NoCol,
     first_released_col |-> NoCol, jp_col |-> NoCol, na_col |-> NoCol,
     pal_col |-> NoCol, europe_col |-> NoCol, australasia_col |-> NoCol,
     brazil_col |-> NoCol, br_col |-> NoCol,
     uses_row_headers |-> FALSE, has_region_header_row |-> FALSE]

\* any(keyword in text for keyword in keywords)
ContainsAny(text, keywords) == \E k \in keywords : Contains(text, k)

IsRowHeader(cell) == cell.name = "th" /\ cell.scope = "row"

\* some row after the first starts with a th scope="row"
UsesRowHeaders(rows) == \E i \in 2..Len(rows) : rows[i] # << >> /\ IsRowHeader(rows[i][1])

region_keywords ==
    {"japan", "jp", "north america", "na", "europe", "eu", "pal", "australasia",
     "australia", "brazil", "br"}

\* cell.get_text(strip=True).lower()
HeaderCellText(cell) == Lower(get_text_strip(cell))

\* the first cell of the second row contains a region keyword
HasRegionHeaderRow(rows) ==
    /\ Len(rows) > 1
    /\ rows[2] # << >>
    /\ ContainsAny(HeaderCellText(rows[2][1]), region_keywords)

RECURSIVE JoinHeaderTexts(_)
\* ' '.join of the header texts of the cells
JoinHeaderTexts(cells) ==
    IF cells = << >> THEN ""
    ELSE IF Len(cells) = 1 THEN HeaderCellText(cells[1])
    ELSE HeaderCellText(cells[1]) \o " " \o JoinHeaderTexts(Tail(cells))

\* the indices (1-based) of the header rows
HeaderRows(rows, has_region) ==
    LET stop_idx == IF has_region THEN 1 ELSE Len(rows)
        last == IF stop_idx < 3 THEN stop_idx ELSE 3
        isHeader(i) == /\ rows[i] # << >>
                       /\ ContainsAny(JoinHeaderTexts(rows[i]),
                                      {"title", "developer", "publisher", "release"})
        found == SelectSeq([i \in 1..last |-> i], isHeader)
    IN  IF found = << >> THEN << 1 >> ELSE found

\* the header cell is the "release date" span over a region header row
IsReleaseDateSpan(cell, has_region) ==
    has_region /\ Contains(HeaderCellText(cell), "release") /\ Contains(HeaderCellText(cell), "date")

RECURSIVE Repeat(_, _)
Repeat(x, n) == IF n <= 0 THEN << >> ELSE << x >> \o Repeat(x, n - 1)

RECURSIVE ExpandCells(_, _)
\* the header texts of one row, each as often as its colspan says
ExpandCells(cells, has_region) ==
    IF cells = << >> THEN << >>
    ELSE LET cell == Head(cells)
             colspan == IF IsReleaseDateSpan(cell, has_region) THEN 1 ELSE IntAttr(cell.colspan)
         IN  Repeat(HeaderCellText(cell), colspan) \o ExpandCells(Tail(cells), has_region)

RECURSIVE AllHeaders(_, _, _)
AllHeaders(rows, header_rows, has_region) ==
    IF header_rows = << >> THEN << >>
    ELSE ExpandCells(rows[Head(header_rows)], has_region)
             \o AllHeaders(rows, Tail(header_rows), has_region)

\* structure[field] = idx if structure[field] is None and the header matches
Claim(st, field, idx, matches) ==
    IF st[field] = NoCol /\ matches THEN [st EXCEPT ![field] = idx] ELSE st

\* one round of the loop over all_headers: header text h at index idx
MapHeader(st, h, idx) ==
    LET s1 == Claim(st, "title_col", idx, ContainsAny(h, {"title", "game", "name"}))
        s2 == Claim(s1, "developer_col", idx, Contains(h, "developer"))
        s3 == Claim(s2, "publisher_col", idx, Contains(h, "publisher"))
        s4 == Claim(s3, "first_released_col", idx,
                    /\ ContainsAny(h, {"first released", "release date", "released",
                                       "first release"})
                    /\ ~Contains(h, "japan"))
        r1 == Claim(s4, "jp_col", idx, Contains(h, "japan") \/ h \in {"jp", "j"})
        r2 == Claim(r1, "na_col", idx, Contains(h, "north america") \/ h \in {"na", "north"})
        r3 == Claim(r2, "pal_col", idx, Contains(h, "pal") /\ ~Contains(h, "europe"))
        r4 == Claim(r3, "europe_col", idx, Contains(h, "europe") /\ ~Contains(h, "/pal"))
        r5 == Claim(r4, "australasia_col", idx,
                    \/ Contains(h, "australasia")
                    \/ (Contains(h, "australia") /\ ~Contains(h, "australasia")))
        r6 == Claim(r5, "brazil_col", idx, Contains(h, "brazil") \/ h = "br")
        r7 == Claim(r6, "br_col", idx, Contains(h, "brazil") \/ h = "br")
    IN  IF st.has_region_header_row THEN s4 ELSE r7

RECURSIVE MapHeaders(_, _, _)
\* the loop over enumerate(all_headers), from index idx on
MapHeaders(st, headers, idx) ==
    IF headers = << >> THEN st
    ELSE MapHeaders(MapHeader(st, Lower(Strip(Head(headers))), idx), Tail(headers), idx + 1)

RECURSIVE ColumnsInDataRows_NoBreak(_)
\* the columns of all the cells of the first row, the "release date" span
\* with its colspan among them
ColumnsInDataRows_NoBreak(cells) ==
    IF cells = << >> THEN 0
    ELSE (IF IntAttr(Head(cells).rowspan) >= 2 THEN 1 ELSE IntAttr(Head(cells).colspan))
             + ColumnsInDataRows_NoBreak(Tail(cells))

RECURSIVE ColumnsInDataRows(_)
\* the columns the cells of the first row take in a data row, up to the
\* "release date" span
ColumnsInDataRows(cells) ==
    IF cells = << >> THEN 0
    ELSE LET cell == Head(cells)
         IN  IF IntAttr(cell.rowspan) >= 2 THEN 1 + ColumnsInDataRows(Tail(cells))
             ELSE IF Contains(HeaderCellText(cell), "release")
                        /\ Contains(HeaderCellText(cell), "date") THEN 0
             ELSE IntAttr(cell.colspan) + ColumnsInDataRows(Tail(cells))

\* the cell of the region row names a region
IsRegionCell(cell) ==
    LET cell_text == Strip(HeaderCellText(cell))
    IN  /\ cell_text # ""
        /\ \/ cell_text \in {"jp", "j", "na", "pal", "europe", "eu", "brazil", "br"}
           \/ ContainsAny(cell_text, {"japan", "north america", "australasia", "australia"})

\* structure[field] = actual_idx if the region cell matches
Assign(st, field, actual_idx, matches) == IF matches THEN [st EXCEPT ![field] = actual_idx] ELSE st

\* the region cell with text t mapped to the column actual_idx
MapRegion(st, t, actual_idx) ==
    LET a1 == Assign(st, "jp_col", actual_idx, Contains(t, "japan") \/ t = "jp" \/ t = "j")
        a2 == Assign(a1, "na_col", actual_idx, Contains(t, "north america") \/ t = "na")
        a3 == Assign(a2, "pal_col", actual_idx, Contains(t, "pal"))
        a4 == Assign(a3, "europe_col", actual_idx, Contains(t, "europe") \/ t = "eu")
        a5 == Assign(a4, "australasia_col", actual_idx,
                     Contains(t, "australasia") \/ Contains(t, "australia"))
        a6 == Assign(a5, "brazil_col", actual_idx, Contains(t, "brazil") \/ t = "br")
    IN  Assign(a6, "br_col", actual_idx, Contains(t, "brazil") \/ t = "br")

RECURSIVE MapRegions(_, _, _, _, _)
\* the loop over enumerate(region_row_cells), from index idx on
MapRegions(st, cells, idx, region_start_idx, columns_in_data_rows) ==
    IF cells = << >> THEN st
    ELSE IF ~IsRegionCell(Head(cells))
         THEN MapRegions(st, Tail(cells), idx + 1, region_start_idx, columns_in_data_rows)
    ELSE LET start == IF region_start_idx = NoCol THEN idx ELSE region_start_idx
             actual_idx == columns_in_data_rows + (idx - start)
         IN  MapRegions(MapRegion(st, Strip(HeaderCellText(Head(cells))), actual_idx),
                        Tail(cells), idx + 1, start, columns_in_data_rows)

RECURSIVE SpanRaises(_)
\* int() of a rowspan or colspan raises ValueError in the count of the columns
SpanRaises(cells) ==
    IF cells = << >> THEN FALSE
    ELSE LET cell == Head(cells)
         IN  \/ ~IntAttrOk(cell.rowspan)
             \/ ~IntAttrOk(cell.colspan)
             \/ /\ ~(/\ IntAttr(cell.rowspan) < 2
                     /\ Contains(HeaderCellText(cell), "release")
                     /\ Contains(HeaderCellText(cell), "date"))
                /\ SpanRaises(Tail(cells))

\* analyze_table_structure(table) raises ValueError
RaisesWith(rows, has_region, header_rows) ==
    \/ \E k \in 1..Len(header_rows) : \E c \in 1..Len(rows[header_rows[k]]) :
          /\ ~IsReleaseDateSpan(rows[header_rows[k]][c], has_region)
          /\ ~IntAttrOk(rows[header_rows[k]][c].colspan)
    \/ has_region /\ SpanRaises(rows[1])

RaisesIn(rows, has_region) == RaisesWith(rows, has_region, HeaderRows(rows, has_region))

analyze_raises(table) ==
    Len(table.rows) >= 2 /\ RaisesIn(table.rows, HasRegionHeaderRow(table.rows))

\* lines 363-409
WithRegions(st, rows) ==
    IF st.has_region_header_row
    THEN MapRegions(st, rows[2], 0, NoCol, ColumnsInDataRows(rows[1]))
    ELSE st

\* lines 411-412
WithRowHeaderTitle(st) == IF st.uses_row_headers THEN [st EXCEPT !.title_col = 0] ELSE st

\* lines 267-412, for a table of two rows or more
Analyzed(rows, has_region) ==
    WithRowHeaderTitle(
        WithRegions(
            MapHeaders([EmptyStructure EXCEPT !.uses_row_headers = UsesRowHeaders(rows),
                                              !.has_region_header_row = has_region],
                       AllHeaders(rows, HeaderRows(rows, has_region), has_region), 0),
            rows))

analyze_table_structure(table) ==
    IF Len(table.rows) < 2 THEN EmptyStructure
    ELSE Analyzed(table.rows, HasRegionHeaderRow(table.rows))

(***************************************************************************)
(* extract_cell_data                                                       *)
(***************************************************************************)

ColumnKeys ==
    {"title_col", "developer_col", "publisher_col", "first_released_col", "jp_col",
     "na_col", "pal_col", "europe_col", "australasia_col", "brazil_col", "br_col"}

\* {k: (v - 1 if v is not None and v > 0 else v) for the keys ending in _col}
AdjustStructure(structure) ==
    [k \in ColumnKeys |-> IF structure[k] # NoCol /\ structure[k] > 0
                          THEN structure[k] - 1 ELSE structure[k]]

\* col is not None and len(cells) > col
HasColumn(cells, col) == col # NoCol /\ Len(cells) > col

\* the text field left out when the text of its cell is empty
WithText_NonEmpty(g, field, cells, col) ==
    IF HasColumn(cells, col) /\ get_link_or_italic_text(cells[col + 1]) # ""
    THEN Put(g, field, get_link_or_italic_text(cells[col + 1]))
    ELSE g

\* game[field] = text of the cell in column col, when the row has that column
WithText(g, field, cells, col) ==
    IF HasColumn(cells, col) THEN Put(g, field, get_link_or_italic_text(cells[col + 1])) ELSE g

\* the date field set without the test of date_str
PutDate_Always(g, field, date_str) == Put(g, field, date_str)

\* if date_str: game[field] = date_str
PutDate(g, field, date_str) == IF date_str # "" THEN Put(g, field, date_str) ELSE g

\* game[field] = date of the cell in column col, when it has one
WithDate(g, field, cells, col) ==
    IF HasColumn(cells, col) THEN PutDate(g, field, parse_date_cell(cells[col + 1])) ELSE g

\* brazil_col or br_col
BrazilCol(st) == IF st.brazil_col = NoCol \/ st.brazil_col = 0 THEN st.br_col ELSE st.brazil_col

\* the date fields of a record and the columns they are read from, in the
\* order of lines 454-497
DateColumns(st) ==
    << << "first_released", st.first_released_col >>, << "jp_release", st.jp_col >>,
       << "na_release", st.na_col >>, << "pal_release", st.pal_col >>,
       << "europe_release", st.europe_col >>,
       << "australasia_release", st.australasia_col >>,
       << "brazil_release", BrazilCol(st) >>, << "br_release", BrazilCol(st) >> >>

RECURSIVE WithDates(_, _, _)
WithDates(g, cells, columns) ==
    IF columns = << >> THEN g
    ELSE WithDates(WithDate(g, Head(columns)[1], cells, Head(columns)[2]), cells, Tail(columns))

\* lines 443-499: the fields after the title, read from the adjusted cells
ExtractFields(g, cells, st) ==
    WithDates(WithText(WithText(g, "developer", cells, st.developer_col),
                       "publisher", cells, st.publisher_col),
              cells, DateColumns(st))

\* the first cell of the row is the row header that holds the title
RowHeaded(cells, structure) == structure.uses_row_headers /\ IsRowHeader(cells[1])

\* lines 422-441: the record with the title, when the row gives one
TitleOnly(cells, structure) ==
    IF RowHeaded(cells, structure)
    THEN Put(EmptyDict, "title", get_link_or_italic_text(cells[1]))
    ELSE IF structure.uses_row_headers
         THEN IF structure.title_col # NoCol
              THEN Put(EmptyDict, "title",
                       get_link_or_italic_text(cells[structure.title_col + 1]))
              ELSE EmptyDict
    ELSE WithText(EmptyDict, "title", cells, structure.title_col)

extract_cell_data(cells, structure) ==
    IF structure.uses_row_headers /\ cells = << >> THEN EmptyDict
    ELSE ExtractFields(TitleOnly(cells, structure),
                       IF RowHeaded(cells, structure) THEN Tail(cells) ELSE cells,
                       IF RowHeaded(cells, structure) THEN AdjustStructure(structure)
                       ELSE structure)

(***************************************************************************)
(* normalize_game_data                                                     *)
(***************************************************************************)

\* the date fields without release_date itself
date_fields_Regional ==
    << "first_released", "jp_release", "na_release", "pal_release", "europe_release",
       "australasia_release", "brazil_release", "br_release" >>

date_fields ==
    << "first_released", "jp_release", "na_release", "pal_release", "europe_release",
       "australasia_release", "brazil_release", "br_release", "release_date" >>

\* the copy of the record with every value stripped and the basic fields present
StripValues(g) ==
    LET nz == [k \in DOMAIN g |-> Strip(g[k])]
        basic == {"title", "developer", "publisher"} \ DOMAIN g
    IN  nz @@ [k \in basic |-> ""]

\* release_dates: the non-empty values of the date fields, in field order
ReleaseDates(nz) ==
    LET F[n \in 0..Len(date_fields)] ==
            IF n = 0 THEN << >>
            ELSE LET date_value == Strip(Get(nz, date_fields[n]))
                 IN  IF date_value # "" THEN Append(F[n - 1], date_value) ELSE F[n - 1]
    IN  F[Len(date_fields)]

\* the datetime of one date string: << dt >>, or << >> when it is skipped
ParseReleaseDate(date_str) ==
    IF Len(date_str) >= 10 THEN Strptime(Slice(date_str, 1, 10), FmtYmdDash)
    ELSE IF Len(date_str) >= 7 THEN Strptime(Slice(date_str, 1, 7), FmtYmDash)
    ELSE << >>

\* parsed_dates: << dt, date_str >> for every release date that parses
ParsedDates(release_dates) ==
    LET F[n \in 0..Len(release_dates)] ==
            IF n = 0 THEN << >>
            ELSE LET dt == ParseReleaseDate(release_dates[n])
                 IN  IF dt # << >> THEN Append(F[n - 1], << dt[1], release_dates[n] >>)
                     ELSE F[n - 1]
    IN  F[Len(release_dates)]

\* a sort that puts the later of two equal dates first
SortByDate_TiesReversed(parsed_dates) ==
    LET Insert(sorted, x) ==
            LET before == { i \in 1..Len(sorted) : DateOrd(sorted[i][1]) < DateOrd(x[1]) }
                n == Cardinality(before)
            IN  SubSeq(sorted, 1, n) \o << x >> \o SubSeq(sorted, n + 1, Len(sorted))
        F[n \in 0..Len(parsed_dates)] ==
            IF n = 0 THEN << >> ELSE Insert(F[n - 1], parsed_dates[n])
    IN  F[Len(parsed_dates)]

\* list.sort(key=lambda x: x[0]): stable, so equal dates keep their order
SortByDate(parsed_dates) ==
    LET Insert(sorted, x) ==
            LET before == { i \in 1..Len(sorted) : DateOrd(sorted[i][1]) <= DateOrd(x[1]) }
                n == Cardinality(before)
            IN  SubSeq(sorted, 1, n) \o << x >> \o SubSeq(sorted, n + 1, Len(sorted))
        F[n \in 0..Len(parsed_dates)] ==
            IF n = 0 THEN << >> ELSE Insert(F[n - 1], parsed_dates[n])
    IN  F[Len(parsed_dates)]

\* release_date left empty when no date parses (lines 558-560 dropped)
EarliestReleaseDate_NoFallback(nz) ==
    LET release_dates == ReleaseDates(nz)
        parsed_dates == ParsedDates(release_dates)
    IN  IF release_dates = << >> THEN ""
        ELSE IF parsed_dates # << >> THEN SortByDate(parsed_dates)[1][2]
        ELSE ""

\* the value release_date gets
EarliestReleaseDate(nz) ==
    LET release_dates == ReleaseDates(nz)
        parsed_dates == ParsedDates(release_dates)
    IN  IF release_dates = << >> THEN ""
        ELSE IF parsed_dates # << >> THEN SortByDate(parsed_dates)[1][2]
        ELSE release_dates[1]

normalize_game_data(g) ==
    LET nz == StripValues(g)
    IN  Without(Put(nz, "release_date", EarliestReleaseDate(nz)),
                "first_released")

(***************************************************************************)
(* create_game_key, deduplicate_games                                      *)
(***************************************************************************)

\* the key without the lower-casing of line 579-581
create_game_key_CaseSensitive(g) ==
    LET title == Strip(Get(g, "title"))
        developer == Strip(Get(g, "developer"))
        publisher == Strip(Get(g, "publisher"))
    IN  SplitJoin(title) \o "|||" \o SplitJoin(developer) \o "|||" \o SplitJoin(publisher)

create_game_key(g) ==
    LET title == Lower(Strip(Get(g, "title")))
        developer == Lower(Strip(Get(g, "developer")))
        publisher == Lower(Strip(Get(g, "publisher")))
    IN  SplitJoin(title) \o "|||" \o SplitJoin(developer) \o "|||" \o SplitJoin(publisher)

CoreFields == {"title", "developer", "publisher", "release_date"}

\* existing_completeness / current_completeness
Completeness(g) == Cardinality({ k \in CoreFields : Strip(Get(g, k)) # "" })

\* the comparison of line 615 with >= for >
ShouldReplace_AtLeast(existing, g) ==
    \/ Completeness(g) >= Completeness(existing)
    \/ Strip(Get(existing, "release_date")) = "" /\ Strip(Get(g, "release_date")) # ""

\* the condition under which the incoming record replaces the stored one
ShouldReplace(existing, g) ==
    \/ Completeness(g) > Completeness(existing)
    \/ Strip(Get(existing, "release_date")) = "" /\ Strip(Get(g, "release_date")) # ""

\* the comparison of line 620 with != for ==
ReplaceInResult_OtherKey(res, key, g) ==
    LET hits == { i \in 1..Len(res) : create_game_key(res[i]) # key }
    IN  IF hits = {} THEN res
        ELSE LET first == CHOOSE i \in hits : \A j \in hits : i <= j
             IN  [res EXCEPT ![first] = g]

\* result with its first record of that key replaced by the incoming record
ReplaceInResult(res, key, g) ==
    LET hits == { i \in 1..Len(res) : create_game_key(res[i]) = key }
    IN  IF hits = {} THEN res
        ELSE LET first == CHOOSE i \in hits : \A j \in hits : i <= j
             IN  [res EXCEPT ![first] = g]

\* result.insert(0, game) for result.append(game)
AppendGame_Front(res, g) == << g >> \o res

\* result.append(game)
AppendGame(res, g) == Append(res, g)

\* one pass of the loop body on << seen, result >>
DedupStep(st, g) ==
    LET key == create_game_key(g)
    IN  IF key \notin DOMAIN st.seen
        THEN [seen |-> Put(st.seen, key, g), result |-> AppendGame(st.result, g)]
        ELSE IF ShouldReplace(st.seen[key], g)
        THEN [seen |-> Put(st.seen, key, g),
              result |-> ReplaceInResult(st.result, key, g)]
        ELSE st

deduplicate_games(gs) ==
    LET F[n \in 0..Len(gs)] ==
            IF n = 0 THEN [seen |-> EmptyDict, result |-> << >>]
            ELSE DedupStep(F[n - 1], gs[n])
    IN  F[Len(gs)].result

(***************************************************************************)
(* parse_game_table, parse_unreleased_table, parse_konami_qta_table.       *)
(* What one row gives is << the record >>, or << >> when the row is        *)
(* skipped.                                                                *)
(***************************************************************************)

\* game.get('title')
HasTitle(g) == Get(g, "title") # ""

KeepsRecord_Untitled(g) == g # EmptyDict

\* line 721: game and game.get('title')
KeepsRecord(g) == g # EmptyDict /\ HasTitle(g)

\* lines 721-722: games.append(game), or not
Kept(g) == IF KeepsRecord(g) THEN << g >> ELSE << >>

\* lines 747-748, 775-776
TitledOnly(g) == IF HasTitle(g) THEN << g >> ELSE << >>

\* lines 715-722
GameRow(cells, structure) ==
    IF cells = << >> THEN << >> ELSE Kept(extract_cell_data(cells, structure))

\* lines 736-748
UnreleasedRow(cells) ==
    IF Len(cells) < 4 THEN << >>
    ELSE TitledOnly([title |-> get_link_or_italic_text(cells[1]),
                     year |-> clean_text(get_text(cells[2])),
                     publisher |-> get_link_or_italic_text(cells[3]),
                     regions |-> clean_text(get_text(cells[4]))])

\* lines 762-776
KonamiRow(cells) ==
    IF Len(cells) < 4 THEN << >>
    ELSE TitledOnly(PutDate([title |-> get_link_or_italic_text(cells[1]),
                             developer |-> get_link_or_italic_text(cells[2]),
                             publisher |-> clean_text(get_text(cells[3]))],
                            "jp_release", parse_date_cell(cells[4])))

\* the index of the row before the first data row
StartIdx(structure) == IF structure.has_region_header_row THEN 2 ELSE 1

parse_game_table(table) ==
    LET rows == table.rows
        structure == analyze_table_structure(table)
        acc[i \in 0..Len(rows)] ==
            IF i = 0 THEN << >>
            ELSE acc[i - 1] \o (IF i > StartIdx(structure)
                                THEN GameRow(rows[i], structure) ELSE << >>)
    IN  IF Len(rows) < 2 THEN << >> ELSE acc[Len(rows)]

parse_unreleased_table(table) ==
    LET rows == table.rows
        acc[i \in 0..Len(rows)] ==
            IF i = 0 THEN << >>
            ELSE acc[i - 1] \o (IF i > 1 THEN UnreleasedRow(rows[i]) ELSE << >>)
    IN  IF Len(rows) < 2 THEN << >> ELSE acc[Len(rows)]

parse_konami_qta_table(table) ==
    LET rows == table.rows
        acc[i \in 0..Len(rows)] ==
            IF i = 0 THEN << >>
            ELSE acc[i - 1] \o (IF i > 1 THEN KonamiRow(rows[i]) ELSE << >>)
    IN  IF Len(rows) < 2 THEN << >> ELSE acc[Len(rows)]

(***************************************************************************)
(* find_game_tables, extract_with_bs4.  A document is the sequence of its  *)
(* tables in document order.                                               *)
(***************************************************************************)

\* soup.find_all('table', {'id': id})
TablesWithId(doc, id) == SelectSeq(doc, LAMBDA t : t.id = id)

\* the fallback test without the count of the cells of a data row
IsGameListing_AnyWidth(table) ==
    /\ Len(table.rows) > 10
    /\ ContainsAny(JoinHeaderTexts(table.rows[1]), {"title", "game", "name"})
    /\ ContainsAny(JoinHeaderTexts(table.rows[1]), {"developer", "publisher"})
    /\ Cardinality({ i \in 2..6 : Find(table.rows[i][1], "a") # << >>
                                    \/ Find(table.rows[i][1], "i") # << >> }) >= 2

\* lines 674-690: the fallback takes this table
IsGameListing(table) ==
    LET rows == table.rows
        header_text == JoinHeaderTexts(rows[1])
        isData(i) == /\ Len(rows[i]) >= 3
                     /\ (Find(rows[i][1], "a") # << >> \/ Find(rows[i][1], "i") # << >>)
        data_row_count == Cardinality({ i \in 2..6 : i <= Len(rows) /\ isData(i) })
    IN  /\ Len(rows) > 10
        /\ ContainsAny(header_text, {"title", "game", "name"})
        /\ ContainsAny(header_text, {"developer", "publisher"})
        /\ data_row_count >= 2

\* the tables of the first strategy, and the table of the second after them
find_game_tables_Both(doc) ==
    LET listings == SelectSeq(SelectSeq(doc, LAMBDA t : Contains(t.class, "wikitable")),
                              IsGameListing)
    IN  SelectSeq(TablesWithId(doc, "softwarelist"), LAMBDA t : Len(t.rows) > 5)
            \o (IF listings # << >> THEN << listings[1] >> ELSE << >>)

find_game_tables(doc) ==
    LET found_tables == SelectSeq(TablesWithId(doc, "softwarelist"),
                                  LAMBDA t : Len(t.rows) > 5)
        all_tables == SelectSeq(doc, LAMBDA t : Contains(t.class, "wikitable"))
        listings == SelectSeq(all_tables, IsGameListing)
    IN  IF found_tables # << >> THEN found_tables
        ELSE IF listings # << >> THEN << listings[1] >>
        ELSE << >>

\* extract_with_bs4 raises: int() of a span attribute fails in a game table
AnyRaises(game_tables) == \E i \in 1..Len(game_tables) : analyze_raises(game_tables[i])

extract_raises(doc) == AnyRaises(find_game_tables(doc))

RECURSIVE ParseGameTables(_)
\* lines 792-796: the games of all game tables
ParseGameTables(game_tables) ==
    IF game_tables = << >> THEN << >>
    ELSE parse_game_table(Head(game_tables)) \o ParseGameTables(Tail(game_tables))

\* tables['licensed'] exists once a game table gave games
LicensedItem(gs) == IF gs # << >> THEN << [name |-> "licensed", games |-> gs] >> ELSE << >>

\* lines 799-801
UnreleasedItem(found) ==
    IF found # << >>
    THEN << [name |-> "unreleased", games |-> parse_unreleased_table(found[1])] >>
    ELSE << >>

\* lines 803-805
KonamiItem(found) ==
    IF found # << >>
    THEN << [name |-> "konami_qta", games |-> parse_konami_qta_table(found[1])] >>
    ELSE << >>

\* the dict it returns, as the sequence of its items [name, games] in
\* insertion order
extract_with_bs4(doc) ==
    LicensedItem(ParseGameTables(find_game_tables(doc)))
        \o UnreleasedItem(TablesWithId(doc, "softwarelistunreleased"))
        \o KonamiItem(TablesWithId(doc, "konamiqtalist"))

(***************************************************************************)
(* main                                                                    *)
(***************************************************************************)

\* the entries of console_mappings that the file names of the model can meet,
\* in the order of the source
console_mappings == << << "snes", "snes" >>, << "famicom", "nes" >>, << "nes", "nes" >> >>

\* \b at position i of s: between the characters i - 1 and i
WordBoundary(s, i) == (Char(s, i - 1) \in WordChars) # (Char(s, i) \in WordChars)

\* re.search(r'\b' + re.escape(key) + r'\b', s)
SearchWord(s, key) ==
    \E i \in 1..Len(s) :
        OccursAt(s, key, i) /\ WordBoundary(s, i) /\ WordBoundary(s, i + Len(key))

extract_console_name(filename) ==
    LET filename_lower == Lower(filename)
        n == Len(console_mappings)
        words == { k \in 1..n : SearchWord(filename_lower, console_mappings[k][1]) }
        parts == { k \in 1..n : Contains(filename_lower, console_mappings[k][1]) }
        first(S) == CHOOSE k \in S : \A j \in S : k <= j
    IN  IF words # {} THEN console_mappings[first(words)][2]
        ELSE IF parts # {} THEN console_mappings[first(parts)][2]
        ELSE "unknown"

\* the console names of the model in the order sorted() gives them
SortedConsoles == << "nes", "snes", "unknown" >>

\* lines 832-835 and sorted(console_files.items()): the files of each console,
\* in the order of the sorted file list, the consoles sorted by name
GroupByConsole(files) ==
    LET of(c) == SelectSeq(files, LAMBDA f : extract_console_name(f.path) = c)
        present == SelectSeq(SortedConsoles, LAMBDA c : of(c) # << >>)
    IN  [k \in 1..Len(present) |-> [console |-> present[k], files |-> of(present[k])]]

\* console_tables[table_name].extend(gs)
ExtendTable(ct, table_name, gs) ==
    IF \E i \in 1..Len(ct) : ct[i].name = table_name
    THEN [i \in 1..Len(ct) |->
             IF ct[i].name = table_name THEN [ct[i] EXCEPT !.games = @ \o gs] ELSE ct[i]]
    ELSE Append(ct, [name |-> table_name, games |-> gs])

\* [normalize_game_data(game) for game in games]
NormalizeAll(gs) == [i \in 1..Len(gs) |-> normalize_game_data(gs[i])]

RECURSIVE MergeTables(_, _)
\* lines 864-871: the tables of one file merged into the tables of the console
MergeTables(ct, tables_data) ==
    IF tables_data = << >> THEN ct
    ELSE MergeTables(IF Head(tables_data).games # << >>
                     THEN ExtendTable(ct, Head(tables_data).name,
                                      NormalizeAll(Head(tables_data).games))
                     ELSE ct,
                     Tail(tables_data))

\* [g for g in games if g.get('title', '').strip()]
Titled(gs) == SelectSeq(gs, LAMBDA g : Strip(Get(g, "title")) # "")

(***************************************************************************)
(* Inputs                                                                  *)
(***************************************************************************)

\* how many records a list given to deduplicate_games holds at most
MaxGames == 3

\* how many date fields of a record given to normalize_game_data are populated
MaxDates == 2

\* Records as the row parsers return them: the title is never empty and went
\* through clean_text, which can leave two blanks where a citation stood.
RawGamePool ==
    LET dates == { EmptyDict, [jp_release |-> "1999-08-01"], [pal_release |-> "2000-01-15"] }
    IN  { [title |-> t] @@ d : t \in {"a b", "A  b"}, d \in dates }
        \cup { [title |-> "|||"] @@ d : d \in {EmptyDict, [jp_release |-> "1999-08-01"]} }
        \cup { [title |-> "|", developer |-> "|", publisher |-> "|"] @@ d :
                 d \in {EmptyDict, [jp_release |-> "1999-08-01"]} }
        \cup { [title |-> "a b", developer |-> "d"] }

\* main normalizes every record before it reaches deduplicate_games
GamePool == { normalize_game_data(g) : g \in RawGamePool }

GameLists == UNION { [1..n -> GamePool] : n \in 0..MaxGames }

\* date strings: full dates, a month, an impossible day, no date at all, and
\* a value with white space around it
DateValues == { "1999-08-01", "1999-08", " 1998-12-25", "2001-02-29", "TBA" }

\* records with at most MaxDates date fields, for normalize_game_data
NormInputs ==
    LET fieldSets == { fs \in SUBSET { date_fields[i] : i \in 1..Len(date_fields) } :
                          Cardinality(fs) <= MaxDates }
    IN  UNION { { [title |-> "a"] @@ d : d \in [fs -> DateValues] } : fs \in fieldSets }
        \cup { [developer |-> " d "], [title |-> "a ", publisher |-> "p", year |-> "1999"] }

\* how many data rows a table given to a table parser holds at most
MaxRows == 2

\* <td><a>text</a></td>
Lnk(text) == Cell("td", "", << Node("a", text) >>)

\* <td data-sort-value="...">text</td>
SortTd(sort, text) == [Td(text) EXCEPT !.sort = sort]

Spanning(cell, rowspan, colspan) == [cell EXCEPT !.rowspan = rowspan, !.colspan = colspan]

HeaderPlain ==
    << Th("Title"), Th("Developer"), Th("Publisher"), Th("JP"), Th("NA"), Th("PAL") >>

HeaderBrazil ==
    << Th("Title"), Th("Developer"), Th("Publisher"), Th("JP"), Th("NA"), Th("BR") >>

\* the two header rows of a table with a merged "Release date" column
HeaderSpanned ==
    << Spanning(Th("Title"), "2", ""), Spanning(Th("Developer"), "2", ""),
       Spanning(Th("Publisher"), "2", ""), Spanning(Th("Release date"), "", "3") >>

RegionRow == << Th("JP"), Th("NA"), Th("PAL") >>

\* a header whose colspan is not a number
HeaderBadSpan ==
    << Spanning(Th("Title"), "", "2x"), Th("Developer"), Th("Publisher"), Th("JP"),
       Th("NA"), Th("PAL") >>

DataRow(title, developer, jp, last) == << title, developer, Td("Pub"), jp, Td("TBA"), last >>

\* Data rows: the same game without a date, with a PAL date only, with a JP
\* date only, with both; the game under another spelling of its title; a
\* title that holds a region keyword; a row without developer; titles that
\* are empty or empty once cleaned; a row of one cell, a row without cells;
\* a row whose title is a row header.
DataRowPool ==
    { DataRow(Lnk("Alpha"), Td("Dev"), Td(""), Td("")),
      DataRow(Lnk("Alpha"), Td("Dev"), Td(""), Td("2000-01-15")),
      DataRow(Lnk("Alpha"), Td("Dev"), SortTd("19990801", "1999"), Td("Unreleased")),
      DataRow(Lnk("Alpha"), Td("Dev"), Td("August 1, 1999"), Td("2000-01-15")),
      DataRow(Td("alpha  [1]"), Td("Dev"), Td(""), Td("January 15, 2000")),
      DataRow(Lnk("Banana"), Td(""), Td(""), Td("2000-01-15")),
      DataRow(Td("[1]"), Td("Dev"), Td("August 1, 1999"), Td("")),
      << Td("") >>,
      << >>,
      DataRow(Cell("th", "row", << Node("i", "Alpha") >>), Td("Dev"), Td(""), Td("2000-01-15")) }

UnreleasedHeader == << Th("Title"), Th("Year"), Th("Publisher"), Th("Regions") >>

UnreleasedRowPool ==
    { << Lnk("Alpha"), Td("1999"), Td("Pub"), Td("JP") >>,
      << Td(" "), Td("1999"), Td("Pub"), Td("JP") >>,
      << Lnk("Gamma"), Td("2000"), Td("Pub") >> }

KonamiHeader == << Th("Title"), Th("Developer"), Th("Publisher"), Th("Release date") >>

KonamiRowPool ==
    { << Lnk("Alpha"), Td("Dev"), Td("Pub"), Td("March 1996") >>,
      << Cell("td", "", << Node("i", "") >>), Td("Dev"), Td("Pub"), Td("March 1996") >>,
      << Lnk("Delta"), Td("Dev"), Td("Pub"), Td("TBA") >> }

\* the spanned header with a column of references after the release dates
HeaderSpannedRef == HeaderSpanned \o << Spanning(Th("Ref"), "2", "") >>

RefRow ==
    DataRow(Lnk("Alpha"), Td("Dev"), Td("August 1, 1999"), Td("2000-01-15")) \o << Td("[2]") >>

\* a row whose PAL cell names the date after the word unreleased
RefRowPlanned ==
    DataRow(Lnk("Gamma"), Td("Dev"), Td(""), Td("Unreleased (August 1, 1999)")) \o << Td("[2]") >>

\* a header whose first cell names the title and the developer
HeaderMerged == << Th("Game/Developer"), Th("Publisher"), Th("Released") >>

MergedRowPool ==
    { << Cell("th", "row", << Node("i", "Alpha") >>), Td("Pub"), Td("August 1, 1999") >>,
      << Lnk("Beta"), Td("Pub"), Td("2000-01-15") >> }

\* a header whose last column names Europe and PAL together
HeaderEuropePal ==
    << Th("Title"), Th("Developer"), Th("Publisher"), Th("JP"), Th("NA"), Th("Europe/PAL") >>

\* a region row whose last cell names Europe and PAL together
RegionRowEuropePal == << Th("JP"), Th("NA"), Th("Europe/PAL") >>

EuropePalRow == DataRow(Lnk("Alpha"), Td("Dev"), Td("August 1, 1999"), Td("2000-01-15"))

RowLists(pool) == UNION { [1..n -> pool] : n \in 0..MaxRows }

Table(id, rows) == [id |-> id, class |-> "wikitable", rows |-> rows]

\* the tables given to the three table parsers
TablePool ==
    { Table("softwarelist", head \o rows) :
        head \in { << HeaderPlain >>, << HeaderSpanned, RegionRow >>, << HeaderBadSpan >> },
        rows \in RowLists(DataRowPool) }
    \cup { Table("softwarelist", << HeaderSpannedRef, RegionRow >> \o rows) :
             rows \in RowLists({RefRow, RefRowPlanned}) }
    \cup { Table("softwarelist", << HeaderMerged >> \o rows) :
             rows \in RowLists(MergedRowPool) }
    \cup { Table("softwarelist", head \o rows) :
             head \in { << HeaderEuropePal >>, << HeaderSpanned, RegionRowEuropePal >> },
             rows \in RowLists({EuropePalRow}) }
    \cup { Table("softwarelistunreleased", << UnreleasedHeader >> \o rows) :
             rows \in RowLists(UnreleasedRowPool) }
    \cup { Table("konamiqtalist", << KonamiHeader >> \o rows) :
             rows \in RowLists(KonamiRowPool) }

\* a game that stands three times below the two rows that vary, so that the
\* table has the six rows find_game_tables asks for
FillerRow == DataRow(Lnk("Zeta"), Td(""), Td(""), Td(""))

GameTable(head, first, second) ==
    Table("softwarelist", << head, first, second, FillerRow, FillerRow, FillerRow >>)

\* The documents of the html folder: a page whose last column is Brazil; a
\* page with a game table and a table of unreleased games; a page with a
\* Konami table, a game table too short to be taken, and unreleased games
\* without titles; a page whose game table cannot be analyzed; a page
\* without tables.
DocPool ==
    << << GameTable(HeaderBrazil,
                    DataRow(Lnk("Alpha"), Td("Dev"), Td(""), Td("")),
                    DataRow(Lnk("Alpha"), Td("Dev"), Td("August 1, 1999"), Td("2000-01-15"))) >>,
       << GameTable(HeaderPlain,
                    DataRow(Lnk("Alpha"), Td("Dev"), Td(""), Td("2000-01-15")),
                    DataRow(Td("alpha  [1]"), Td(""), Td(""), Td(""))),
          Table("softwarelistunreleased",
                << UnreleasedHeader,
                   << Lnk("Alpha"), Td("1999"), Td("Pub"), Td("JP") >>,
                   << Lnk("Zeta"), Td("2001"), Td(""), Td("JP") >> >>) >>,
       << Table("konamiqtalist",
                << KonamiHeader,
                   << Lnk("Alpha"), Td("Dev"), Td("Pub"), Td("March 1996") >>,
                   << Lnk("Delta"), Td("Dev"), Td("Pub"), Td("TBA") >> >>),
          Table("softwarelist",
                << HeaderPlain, DataRow(Lnk("Omega"), Td("Dev"), Td(""), Td("")) >>),
          Table("softwarelistunreleased",
                << UnreleasedHeader, << Td(" "), Td("1999"), Td("Pub"), Td("JP") >> >>) >>,
       << GameTable(HeaderBadSpan,
                    DataRow(Lnk("Alpha"), Td("Dev"), Td(""), Td("")),
                    DataRow(Lnk("Beta"), Td("Dev"), Td(""), Td(""))),
          Table("softwarelistunreleased",
                << UnreleasedHeader, << Lnk("Eta"), Td("1999"), Td("Pub"), Td("JP") >> >>) >>,
       << >> >>

\* the file names glob can return, sorted
FileNames == << "html/games.html", "html/nes a.html", "html/nes b.html", "html/snes.html" >>

\* what extract_with_bs4 does with each document
Extracted ==
    [d \in 1..Len(DocPool) |->
        IF extract_raises(DocPool[d]) THEN [raises |-> TRUE, tables |-> << >>]
        ELSE [raises |-> FALSE, tables |-> extract_with_bs4(DocPool[d])]]

\* the html folders: every file name is absent or holds one of the documents
HtmlFolders ==
    LET contents == [1..Len(FileNames) -> 0..Len(DocPool)]
        files(c) == SelectSeq([k \in 1..Len(FileNames) |-> [path |-> FileNames[k], doc |-> c[k]]],
                              LAMBDA f : f.doc # 0)
    IN  { files(c) : c \in contents }

\* how many tables a document given to find_game_tables holds at most
MaxTables == 2

LinkedRow == << Lnk("Zeta"), Td("Dev"), Td("Pub") >>

ItalicRow == << Cell("td", "", << Node("i", "Eta") >>), Td("Dev"), Td("Pub") >>

PlainRow == << Td("Theta"), Td("Dev"), Td("Pub") >>

\* a row of two cells whose first cell holds a link
NarrowRow == << Lnk("Zeta"), Td("Pub") >>

ListingHeader == << Th("Game"), Th("Publisher"), Th("Year") >>

\* a header with a title keyword and neither developer nor publisher
OtherHeader == << Th("Name"), Th("Year"), Th("Notes") >>

RECURSIVE Padded(_, _, _)
\* the rows filled up with copies of row to n rows
Padded(rows, row, n) == IF Len(rows) >= n THEN rows ELSE Padded(Append(rows, row), row, n)

\* a table of n rows: the header, the lead rows, then plain rows
Listing(id, class, header, lead, n) ==
    [id |-> id, class |-> class, rows |-> Padded(<< header >> \o lead, PlainRow, n)]

\* The tables of the documents: tables with the softwarelist id of six rows,
\* of five rows, and of eleven rows without class; listings the fallback
\* takes, with the linked or italic titles at the top or in the fourth and
\* fifth data row; and tables it passes over: one linked title in the first
\* five data rows, ten rows, no developer or publisher header, no wikitable
\* class, data rows of two cells.
FindTablePool ==
    { Listing("softwarelist", "wikitable", ListingHeader, << LinkedRow >>, 6),
      Listing("softwarelist", "wikitable", ListingHeader, << LinkedRow, LinkedRow >>, 5),
      Listing("softwarelist", "", OtherHeader, << >>, 11),
      Listing("", "wikitable sortable", ListingHeader, << LinkedRow, ItalicRow >>, 11),
      Listing("", "wikitable", ListingHeader,
              << PlainRow, PlainRow, PlainRow, ItalicRow, LinkedRow >>, 11),
      Listing("", "wikitable", ListingHeader,
              << PlainRow, PlainRow, PlainRow, PlainRow, LinkedRow, LinkedRow >>, 11),
      Listing("", "wikitable", ListingHeader, << LinkedRow, LinkedRow >>, 10),
      Listing("", "wikitable", OtherHeader, << LinkedRow, LinkedRow >>, 11),
      Listing("", "sortable", ListingHeader, << LinkedRow, LinkedRow >>, 11),
      Listing("", "wikitable", ListingHeader, << NarrowRow, NarrowRow, NarrowRow >>, 11) }

\* the documents given to find_game_tables
FindDocs == UNION { [1..n -> FindTablePool] : n \in 0..MaxTables }

(***************************************************************************)
(* deduplicate_games, one loop pass per step                               *)
(***************************************************************************)

DedupIdle ==
    /\ games = << >> /\ pos = 0 /\ seen = EmptyDict /\ result = << >>
    /\ replaced = {} /\ kept = {}

NormIdle == game = EmptyDict /\ normalized = EmptyDict

TableIdle ==
    /\ the_table = [id |-> "", class |-> "", rows |-> << >>]
    /\ the_structure = EmptyStructure /\ row_idx = 0 /\ parsed = << >> /\ out = << >>

FindIdle == soup = << >> /\ tables_found = << >>

DateIdle == date_cell = Td("") /\ date_result = ""

SiteIdle == old_files = EmptyDict /\ all_data = EmptyDict

CheckIdle == json_files = << >> /\ results = EmptyDict

MainIdle ==
    /\ html_files = << >> /\ console_files = << >> /\ console_idx = 0 /\ file_idx = 0
    /\ console_tables = << >> /\ table_idx = 0 /\ all_games = << >>
    /\ database = EmptyDict

InitDedup ==
    /\ pc = "dedup_loop"
    /\ games \in GameLists
    /\ pos = 0 /\ seen = EmptyDict /\ result = << >> /\ replaced = {} /\ kept = {}
    /\ NormIdle /\ TableIdle /\ MainIdle /\ FindIdle
    /\ DateIdle /\ SiteIdle /\ CheckIdle

\* lines 601-603: the key is new
DedupNew ==
    /\ pc = "dedup_loop" /\ pos < Len(games)
    /\ LET g == games[pos + 1]
           key == create_game_key(g)
       IN  /\ key \notin DOMAIN seen
           /\ seen' = Put(seen, key, g)
           /\ result' = AppendGame(result, g)
    /\ pos' = pos + 1
    /\ UNCHANGED << pc, games, replaced, kept, normVars, tableVars, mainVars, findVars,
                    dateVars, siteVars, checkVars >>

\* lines 604-622, the condition of line 615 true
DedupReplace ==
    /\ pc = "dedup_loop" /\ pos < Len(games)
    /\ LET g == games[pos + 1]
           key == create_game_key(g)
       IN  /\ key \in DOMAIN seen
           /\ ShouldReplace(seen[key], g)
           /\ seen' = Put(seen, key, g)
           /\ result' = ReplaceInResult(result, key, g)
           /\ replaced' = replaced \cup {key}
    /\ pos' = pos + 1
    /\ UNCHANGED << pc, games, kept, normVars, tableVars, mainVars, findVars,
                    dateVars, siteVars, checkVars >>

\* lines 604-616, the condition of line 615 false
DedupKeep ==
    /\ pc = "dedup_loop" /\ pos < Len(games)
    /\ LET g == games[pos + 1]
           key == create_game_key(g)
       IN  /\ key \in DOMAIN seen
           /\ ~ShouldReplace(seen[key], g)
           /\ kept' = kept \cup {key}
    /\ pos' = pos + 1
    /\ UNCHANGED << pc, games, seen, result, replaced, normVars, tableVars, mainVars, findVars,
                    dateVars, siteVars, checkVars >>

\* line 624
DedupReturn ==
    /\ pc = "dedup_loop" /\ pos = Len(games)
    /\ pc' = "dedup_done"
    /\ UNCHANGED << dedupVars, normVars, tableVars, mainVars, findVars,
                    dateVars, siteVars, checkVars >>

NextDedup == DedupNew \/ DedupReplace \/ DedupKeep \/ DedupReturn

SpecDedup == InitDedup /\ [][NextDedup]_vars

(***************************************************************************)
(* normalize_game_data on one record                                       *)
(***************************************************************************)

InitNorm ==
    /\ pc = "norm_call"
    /\ game \in NormInputs
    /\ normalized = EmptyDict
    /\ DedupIdle /\ TableIdle /\ MainIdle /\ FindIdle
    /\ DateIdle /\ SiteIdle /\ CheckIdle

Normalize ==
    /\ pc = "norm_call"
    /\ normalized' = normalize_game_data(game)
    /\ pc' = "norm_done"
    /\ UNCHANGED << game, dedupVars, tableVars, mainVars, findVars,
                    dateVars, siteVars, checkVars >>

NextNorm == Normalize

SpecNorm == InitNorm /\ [][NextNorm]_vars

(***************************************************************************)
(* A table parser on one table, one row per step, then normalize_game_data *)
(* on every record and deduplicate_games on the list                       *)
(***************************************************************************)

InitTable ==
    /\ pc = "table_call"
    /\ the_table \in TablePool
    /\ the_structure = EmptyStructure /\ row_idx = 0 /\ parsed = << >> /\ out = << >>
    /\ DedupIdle /\ NormIdle /\ MainIdle /\ FindIdle
    /\ DateIdle /\ SiteIdle /\ CheckIdle

IsGameTable == the_table.id = "softwarelist"

\* what the parser of the table gives for the row at row_idx
RowRecord ==
    CASE the_table.id = "softwarelist" -> GameRow(the_table.rows[row_idx], the_structure)
      [] the_table.id = "softwarelistunreleased" -> UnreleasedRow(the_table.rows[row_idx])
      [] the_table.id = "konamiqtalist" -> KonamiRow(the_table.rows[row_idx])

\* lines 702-703, 732-733, 758-759: a table of fewer than two rows
TableTooShort ==
    /\ pc = "table_call" /\ Len(the_table.rows) < 2
    /\ pc' = "table_parsed"
    /\ UNCHANGED << tableVars, dedupVars, normVars, mainVars, findVars,
                    dateVars, siteVars, checkVars >>

\* lines 706-711: the structure of a game table, and where its data rows start
TableAnalyze ==
    /\ pc = "table_call" /\ Len(the_table.rows) >= 2
    /\ IsGameTable /\ ~analyze_raises(the_table)
    /\ the_structure' = analyze_table_structure(the_table)
    /\ row_idx' = StartIdx(the_structure') + 1
    /\ pc' = "table_rows"
    /\ UNCHANGED << the_table, parsed, out, dedupVars, normVars, mainVars, findVars,
                    dateVars, siteVars, checkVars >>

\* line 706: the analysis raises, and so does the parser
TableRaise ==
    /\ pc = "table_call" /\ Len(the_table.rows) >= 2
    /\ IsGameTable /\ analyze_raises(the_table)
    /\ pc' = "table_raised"
    /\ UNCHANGED << tableVars, dedupVars, normVars, mainVars, findVars,
                    dateVars, siteVars, checkVars >>

\* lines 735, 761: the other tables start at their second row
TableSkipHeader ==
    /\ pc = "table_call" /\ Len(the_table.rows) >= 2
    /\ ~IsGameTable
    /\ row_idx' = 2
    /\ pc' = "table_rows"
    /\ UNCHANGED << the_table, the_structure, parsed, out, dedupVars, normVars, mainVars, findVars,
                    dateVars, siteVars, checkVars >>

\* the row gives a record: games.append(game)
RowEmit ==
    /\ pc = "table_rows" /\ row_idx <= Len(the_table.rows)
    /\ \E record \in {RowRecord} : record # << >> /\ parsed' = parsed \o record
    /\ row_idx' = row_idx + 1
    /\ UNCHANGED << pc, the_table, the_structure, out, dedupVars, normVars, mainVars, findVars,
                    dateVars, siteVars, checkVars >>

\* the row gives nothing: no cells, too few cells, or no title
RowSkip ==
    /\ pc = "table_rows" /\ row_idx <= Len(the_table.rows)
    /\ RowRecord = << >>
    /\ row_idx' = row_idx + 1
    /\ UNCHANGED << pc, the_table, the_structure, parsed, out, dedupVars, normVars, mainVars, findVars,
                    dateVars, siteVars, checkVars >>

\* return games
TableReturn ==
    /\ pc = "table_rows" /\ row_idx > Len(the_table.rows)
    /\ pc' = "table_parsed"
    /\ UNCHANGED << tableVars, dedupVars, normVars, mainVars, findVars,
                    dateVars, siteVars, checkVars >>

\* the records normalized and deduplicated, as main does with them
TableDeduplicate ==
    /\ pc = "table_parsed"
    /\ out' = deduplicate_games(NormalizeAll(parsed))
    /\ pc' = "table_done"
    /\ UNCHANGED << the_table, the_structure, row_idx, parsed, dedupVars, normVars, mainVars, findVars,
                    dateVars, siteVars, checkVars >>

NextTable ==
    \/ TableTooShort \/ TableAnalyze \/ TableRaise \/ TableSkipHeader
    \/ RowEmit \/ RowSkip \/ TableReturn \/ TableDeduplicate

SpecTable == InitTable /\ [][NextTable]_vars

(***************************************************************************)
(* main                                                                    *)
(***************************************************************************)

InitMain ==
    /\ pc = "main_call"
    /\ html_files \in HtmlFolders
    /\ console_files = << >> /\ console_idx = 0 /\ file_idx = 0
    /\ console_tables = << >> /\ table_idx = 0 /\ all_games = << >>
    /\ database = EmptyDict
    /\ DedupIdle /\ NormIdle /\ TableIdle /\ FindIdle
    /\ DateIdle /\ SiteIdle /\ CheckIdle

\* lines 824-827: nothing to do
MainNoFiles ==
    /\ pc = "main_call" /\ html_files = << >>
    /\ pc' = "main_done"
    /\ UNCHANGED << mainVars, dedupVars, normVars, tableVars, findVars,
                    dateVars, siteVars, checkVars >>

\* lines 832-835: the files grouped by console
MainGroup ==
    /\ pc = "main_call" /\ html_files # << >>
    /\ console_files' = GroupByConsole(html_files)
    /\ console_idx' = 1 /\ file_idx' = 1 /\ table_idx' = 1
    /\ pc' = "main_console"
    /\ UNCHANGED << html_files, console_tables, all_games, database,
                    dedupVars, normVars, tableVars, findVars,
                    dateVars, siteVars, checkVars >>

AtFile ==
    /\ pc = "main_console" /\ console_idx <= Len(console_files)
    /\ file_idx <= Len(console_files[console_idx].files)

\* the tables of the console taken up before the files are through
AtTable_Early ==
    /\ pc = "main_console" /\ console_idx <= Len(console_files)
    /\ table_idx <= Len(console_tables)

AtTable ==
    /\ pc = "main_console" /\ console_idx <= Len(console_files)
    /\ file_idx > Len(console_files[console_idx].files)
    /\ table_idx <= Len(console_tables)

AtSave ==
    /\ pc = "main_console" /\ console_idx <= Len(console_files)
    /\ file_idx > Len(console_files[console_idx].files)
    /\ table_idx > Len(console_tables)

\* lines 849-871: one file read, extracted, normalized and merged
ProcessFile ==
    /\ AtFile
    /\ \E tables_data \in {Extracted[console_files[console_idx].files[file_idx].doc]} :
          /\ ~tables_data.raises
          /\ console_tables' = MergeTables(console_tables, tables_data.tables)
    /\ file_idx' = file_idx + 1
    /\ UNCHANGED << pc, html_files, console_files, console_idx, table_idx, all_games,
                    database, dedupVars, normVars, tableVars, findVars,
                    dateVars, siteVars, checkVars >>

\* the extraction raised, the files left of the console are passed over
ProcessFileError_Break ==
    /\ AtFile
    /\ Extracted[console_files[console_idx].files[file_idx].doc].raises
    /\ file_idx' = Len(console_files[console_idx].files) + 1
    /\ UNCHANGED << pc, html_files, console_files, console_idx, console_tables, table_idx,
                    all_games, database, dedupVars, normVars, tableVars, findVars,
                    dateVars, siteVars, checkVars >>

\* lines 859-861: the extraction raised, the file is passed over
ProcessFileError ==
    /\ AtFile
    /\ Extracted[console_files[console_idx].files[file_idx].doc].raises
    /\ file_idx' = file_idx + 1
    /\ UNCHANGED << pc, html_files, console_files, console_idx, console_tables, table_idx,
                    all_games, database, dedupVars, normVars, tableVars, findVars,
                    dateVars, siteVars, checkVars >>

\* lines 875-888: one table of the console deduplicated and added
DeduplicateTable ==
    /\ AtTable
    /\ all_games' = all_games \o Titled(deduplicate_games(console_tables[table_idx].games))
    /\ table_idx' = table_idx + 1
    /\ UNCHANGED << pc, html_files, console_files, console_idx, file_idx, console_tables,
                    database, dedupVars, normVars, tableVars, findVars,
                    dateVars, siteVars, checkVars >>

\* lines 891-903
FinalGames == Titled(deduplicate_games(all_games))

NextConsole ==
    /\ console_idx' = console_idx + 1
    /\ file_idx' = 1 /\ table_idx' = 1
    /\ console_tables' = << >> /\ all_games' = << >>

\* lines 891-909: the final deduplication, and the file of the console written
SaveConsole ==
    /\ AtSave
    /\ \E final_games \in {FinalGames} :
          /\ final_games # << >>
          /\ database' = Put(database, console_files[console_idx].console, final_games)
    /\ NextConsole
    /\ UNCHANGED << pc, html_files, console_files, dedupVars, normVars, tableVars, findVars,
                    dateVars, siteVars, checkVars >>

\* lines 891, 905: no game, no file
SkipConsole ==
    /\ AtSave
    /\ FinalGames = << >>
    /\ NextConsole
    /\ UNCHANGED << pc, html_files, console_files, database, dedupVars, normVars, tableVars, findVars,
                    dateVars, siteVars, checkVars >>

\* lines 913-915
MainReturn ==
    /\ pc = "main_console" /\ console_idx > Len(console_files)
    /\ pc' = "main_done"
    /\ UNCHANGED << mainVars, dedupVars, normVars, tableVars, findVars,
                    dateVars, siteVars, checkVars >>

NextMain ==
    \/ MainNoFiles \/ MainGroup \/ ProcessFile \/ ProcessFileError
    \/ DeduplicateTable \/ SaveConsole \/ SkipConsole \/ MainReturn

SpecMain == InitMain /\ [][NextMain]_vars

(***************************************************************************)
(* find_game_tables on one document                                        *)
(***************************************************************************)

InitFind ==
    /\ pc = "find_call"
    /\ soup \in FindDocs
    /\ tables_found = << >>
    /\ DedupIdle /\ NormIdle /\ TableIdle /\ MainIdle
    /\ DateIdle /\ SiteIdle /\ CheckIdle

FindTables ==
    /\ pc = "find_call"
    /\ tables_found' = find_game_tables(soup)
    /\ pc' = "find_done"
    /\ UNCHANGED << soup, dedupVars, normVars, tableVars, mainVars,
                    dateVars, siteVars, checkVars >>

NextFind == FindTables

SpecFind == InitFind /\ [][NextFind]_vars

(***************************************************************************)
(* deduplicate_games and main together; the table parsers and main         *)
(* together                                                                *)
(***************************************************************************)

InitDedupMain == InitDedup \/ InitMain

NextDedupMain == NextDedup \/ NextMain

SpecDedupMain == InitDedupMain /\ [][NextDedupMain]_vars

InitTableMain == InitTable \/ InitMain

NextTableMain == NextTable \/ NextMain

SpecTableMain == InitTableMain /\ [][NextTableMain]_vars

(***************************************************************************)
(* Properties                                                              *)
(***************************************************************************)

\* the key of the spec: the lower-cased, white-space-collapsed triple
NormalizedTriple(g) ==
    << SplitJoin(Lower(Get(g, "title"))), SplitJoin(Lower(Get(g, "developer"))),
       SplitJoin(Lower(Get(g, "publisher"))) >>

NoTwoSameKey(list) ==
    \A i, j \in 1..Len(list) : i < j => NormalizedTriple(list[i]) # NormalizedTriple(list[j])

\* how many of the four core fields are not empty
NonEmptyCore(g) ==
    Cardinality({ k \in {"title", "developer", "publisher", "release_date"} : Get(g, k) # "" })

\* the position of the first record of the list with that key
FirstIndex(list, key) ==
    CHOOSE i \in 1..Len(list) :
        /\ create_game_key(list[i]) = key
        /\ \A j \in 1..(i - 1) : create_game_key(list[j]) # key

\* the records main has written, of every console
WrittenRecords ==
    UNION { { database[c][i] : i \in 1..Len(database[c]) } : c \in DOMAIN database }

\* C1: the list deduplicate_games returns holds no two records with the same
\* lower-cased, white-space-collapsed (title, developer, publisher), and
\* neither does the list main writes for a console.
C1_UniqueKeys ==
    /\ pc = "dedup_done" => NoTwoSameKey(result)
    /\ \A c \in DOMAIN database : NoTwoSameKey(database[c])

\* main has written several records of a console whose files held the same
\* records twice
C1_Witness ==
    /\ pc = "main_done"
    /\ \E c \in DOMAIN database :
          /\ Len(database[c]) >= 2
          /\ \E i, j \in 1..Len(html_files) :
                /\ i < j
                /\ extract_console_name(html_files[i].path) = c
                /\ extract_console_name(html_files[j].path) = c
                /\ html_files[i].doc = html_files[j].doc
                /\ Extracted[html_files[i].doc].tables # << >>

\* C2: when a record of the input with some key has a release date, the one
\* record of the output with that key has a release date, in whatever order
\* the records of that key come.
C2_ReleaseDateRetained ==
    pc = "dedup_done" =>
        \A i \in 1..Len(games) :
            Get(games[i], "release_date") # "" =>
                \E j \in 1..Len(result) :
                    /\ create_game_key(result[j]) = create_game_key(games[i])
                    /\ Get(result[j], "release_date") # ""

C4_Idempotent == pc = "dedup_done" => deduplicate_games(result) = result

\* a result of two records or more, one of which replaced an earlier one
C4_Witness == pc = "dedup_done" /\ replaced # {} /\ Len(result) >= 2

\* the record extract_cell_data reads from row i of the table
RowGame(i) == extract_cell_data(the_table.rows[i], the_structure)

\* C5: for a game table of a header row and two data rows, where row 2 has
\* the title, developer and publisher of row 1 and a PAL date that row 1
\* lacks, parsing, normalizing and deduplicating gives exactly one record,
\* and it carries the PAL date, whatever other dates the rows carry.
C5_OneRecordWithPalDate ==
    ( /\ pc = "table_done" /\ IsGameTable
      /\ Len(the_table.rows) = 3 /\ ~the_structure.has_region_header_row
      /\ the_table.rows[2] # << >> /\ the_table.rows[3] # << >>
      /\ NormalizedTriple(RowGame(2)) = NormalizedTriple(RowGame(3))
      /\ Get(RowGame(2), "pal_release") = ""
      /\ Get(RowGame(3), "pal_release") # "" )
    => /\ Len(out) = 1
       /\ Get(out[1], "pal_release") # ""

\* C6: the records of the output that were never replaced are the first
\* records of their keys and stand in the order of those first appearances.
C6_FirstAppearanceOrder ==
    pc = "dedup_done" =>
        LET never == { j \in 1..Len(result) : create_game_key(result[j]) \notin replaced }
        IN  /\ \A j \in never :
                   result[j] = games[FirstIndex(games, create_game_key(result[j]))]
            /\ \A j1, j2 \in never :
                   j1 < j2 =>
                       FirstIndex(games, create_game_key(result[j1]))
                           < FirstIndex(games, create_game_key(result[j2]))

\* two never-replaced records after a replaced one, and a dropped duplicate
C6_Witness ==
    /\ pc = "dedup_done" /\ Len(games) > Len(result)
    /\ Cardinality({ j \in 1..Len(result) : create_game_key(result[j]) \notin replaced }) >= 2

\* the title read from row i of the table: '' when the row has no cell or
\* the record has no title
TitleOfRow(i) ==
    LET cells == the_table.rows[i]
    IN  IF cells = << >> THEN ""
        ELSE IF IsGameTable THEN Get(extract_cell_data(cells, the_structure), "title")
        ELSE get_link_or_italic_text(cells[1])

\* C7: every record the three table parsers return and every record main
\* writes has a non-empty title, and a data row whose title is empty or
\* missing adds no record.
C7_TitledRecords ==
    /\ [](\A i \in 1..Len(parsed) : Get(parsed[i], "title") # "")
    /\ [](\A g \in WrittenRecords : Get(g, "title") # "")
    /\ [][ (pc = "table_rows" /\ row_idx <= Len(the_table.rows) /\ TitleOfRow(row_idx) = "")
            => parsed' = parsed ]_vars

\* a table of two data rows parsed: the one with a title gave a record, the
\* one with cells and no title gave none
C7_Witness ==
    /\ pc = "table_parsed" /\ Len(the_table.rows) = 3 /\ Len(parsed) = 1
    /\ \E i \in 2..3 : the_table.rows[i] # << >> /\ TitleOfRow(i) = ""

\* how a date string reads as YYYY-MM-DD or as YYYY-MM: << dt >> or << >>
ReadsAsDate(v) ==
    LET full == Strptime(v, FmtYmdDash)
    IN  IF full # << >> THEN full ELSE Strptime(v, FmtYmDash)

\* the populated date fields of the record given to normalize_game_data
Populated == { i \in 1..Len(date_fields) : Strip(Get(game, date_fields[i])) # "" }

DateValue(i) == Strip(Get(game, date_fields[i]))

\* field -> the order number of its date, -1 when its value is no date
DateOrdOf ==
    [i \in Populated |->
        LET dt == ReadsAsDate(DateValue(i)) IN IF dt = << >> THEN -1 ELSE DateOrd(dt[1])]

\* the populated date fields whose value reads as a date
Dated == { i \in Populated : DateOrdOf[i] >= 0 }

\* C8: release_date is the chronologically earliest value of the populated
\* date fields that parse; of two fields with that same date the one earlier
\* in the field order gives the value; with no date field populated it is "".
C8_EarliestDate ==
    pc = "norm_done" =>
        LET ord == DateOrdOf
            dated == { i \in DOMAIN ord : ord[i] >= 0 }
        IN  /\ dated # {} =>
                   \E i \in dated :
                       /\ \A j \in dated : ord[i] <= ord[j]
                       /\ \A j \in dated : ord[j] = ord[i] => i <= j
                       /\ normalized["release_date"] = DateValue(i)
            /\ DOMAIN ord = {} => normalized["release_date"] = ""

\* two fields tie on the earliest date and spell it differently
C8_Witness ==
    /\ pc = "norm_done"
    /\ LET ord == DateOrdOf
       IN  \E i, j \in DOMAIN ord :
               /\ i < j /\ ord[i] >= 0 /\ ord[i] = ord[j]
               /\ DateValue(i) # DateValue(j)
               /\ normalized["release_date"] = DateValue(i)

\* a date of the form YYYY-MM-DD
IsFullDate(v) ==
    /\ Len(v) = 10
    /\ \A i \in {1, 2, 3, 4, 6, 7, 9, 10} : IsDigit(Char(v, i))
    /\ Char(v, 5) = "-" /\ Char(v, 8) = "-"
    /\ Strptime(v, FmtYmdDash) # << >>

\* C9 as stated: release_date is a full date or empty, and empty whenever no
\* date field parses
C9_FullDateOrEmpty ==
    pc = "norm_done" =>
        /\ normalized["release_date"] = "" \/ IsFullDate(normalized["release_date"])
        /\ Dated = {} => normalized["release_date"] = ""

\* C9 (amended): release_date is empty exactly when no date field is
\* populated; otherwise it is the value of a populated date field, the first
\* populated one when none parses; so it is a full date whenever every
\* populated date field holds one.
C9_ValueOfDateField ==
    pc = "norm_done" =>
        /\ normalized["release_date"] = "" <=> Populated = {}
        /\ Populated # {} => \E i \in Populated : normalized["release_date"] = DateValue(i)
        /\ (Populated # {} /\ Dated = {}) =>
               \E i \in Populated :
                   /\ \A j \in Populated : i <= j
                   /\ normalized["release_date"] = DateValue(i)
        /\ (\A i \in Populated : IsFullDate(DateValue(i))) =>
               normalized["release_date"] = "" \/ IsFullDate(normalized["release_date"])

\* date fields are populated, none parses, and release_date is not empty
C9_Witness ==
    /\ pc = "norm_done" /\ Cardinality(Populated) >= 2 /\ Dated = {}
    /\ normalized["release_date"] # ""


\* the keys the spec lists for a record
ListedKeys ==
    {"title", "developer", "publisher", "jp_release", "na_release", "pal_release",
     "europe_release", "australasia_release", "brazil_release", "release_date"}

\* the fields of a record that hold the date of one region
RegionalKeys ==
    {"jp_release", "na_release", "pal_release", "europe_release", "australasia_release",
     "brazil_release", "br_release"}

\* C10 as stated: in every record main writes, an optional field without a
\* value is not a key of the record, and every key is one of the listed ones
C10_AbsentFieldsNotKeys ==
    \A g \in WrittenRecords :
        /\ \A k \in (ListedKeys \ {"title"}) \cap DOMAIN g : g[k] # ""
        /\ DOMAIN g \subseteq ListedKeys

\* C10 (amended): in every record main writes, title, developer, publisher
\* and release_date are keys, the last three with the empty string when no
\* value was found; the date field of a region is a key only with a date;
\* and every key is one of the listed ones, br_release, year or regions.
C10_KeysOfRecord ==
    \A g \in WrittenRecords :
        /\ {"title", "developer", "publisher", "release_date"} \subseteq DOMAIN g
        /\ g["title"] # ""
        /\ \A k \in RegionalKeys \cap DOMAIN g : g[k] # ""
        /\ DOMAIN g \subseteq ListedKeys \cup {"br_release", "year", "regions"}

\* main has written a record without developer and without any date, a
\* record with the date of Brazil, and a record of the unreleased games
C10_Witness ==
    /\ pc = "main_done"
    /\ \E g \in WrittenRecords :
          /\ g["developer"] = "" /\ g["release_date"] = ""
          /\ RegionalKeys \cap DOMAIN g = {}
    /\ \E g \in WrittenRecords : {"brazil_release", "br_release"} \subseteq DOMAIN g
    /\ \E g \in WrittenRecords : {"year", "regions"} \subseteq DOMAIN g

(***************************************************************************)
(* main as a function of the files it finds                                *)
(***************************************************************************)

RECURSIVE ConsoleTablesOf(_, _)
\* lines 846-871: the tables of a console once its files are through
ConsoleTablesOf(ct, files) ==
    IF files = << >> THEN ct
    ELSE ConsoleTablesOf(IF Extracted[Head(files).doc].raises THEN ct
                         ELSE MergeTables(ct, Extracted[Head(files).doc].tables),
                         Tail(files))

RECURSIVE AllGamesOf(_)
\* lines 874-888: the tables of the console deduplicated one by one and joined
AllGamesOf(ct) ==
    IF ct = << >> THEN << >>
    ELSE Titled(deduplicate_games(Head(ct).games)) \o AllGamesOf(Tail(ct))

\* lines 846-903: the list main writes for the files of one console
ConsoleGames(files) ==
    Titled(deduplicate_games(AllGamesOf(ConsoleTablesOf(<< >>, files))))

\* lines 905-909: the file of a console is written when it has a game
PutGames(db, console, final_games) ==
    IF final_games # << >> THEN Put(db, console, final_games) ELSE db

RECURSIVE WriteConsoles(_, _)
\* lines 839-909: the consoles in sorted order, a file for each
WriteConsoles(db, cf) ==
    IF cf = << >> THEN db
    ELSE WriteConsoles(PutGames(db, Head(cf).console, ConsoleGames(Head(cf).files)), Tail(cf))

\* lines 820-909: the files main writes for the html files it finds
MainDatabase(files) ==
    IF files = << >> THEN EmptyDict ELSE WriteConsoles(EmptyDict, GroupByConsole(files))

\* the files whose extraction does not raise
Extractable(files) == SelectSeq(files, LAMBDA f : ~Extracted[f.doc].raises)

\* the files whose extraction gives at least one record
Contributing(files) ==
    SelectSeq(files, LAMBDA f : \E i \in 1..Len(Extracted[f.doc].tables) :
                                    Extracted[f.doc].tables[i].games # << >>)

\* C11: main deduplicates the tables of a console, and writes the file of
\* the console, only after every file of the console has been extracted and
\* its records normalized and added to the tables of the console: whenever
\* all_games or the database changes, the files of the console are through
\* and console_tables holds the records of all the files of the console
\* that were extracted; and a file that is written holds the records main
\* makes of all those files.
C11_AfterEveryPage ==
    [][ (all_games' # all_games \/ database' # database) =>
            /\ pc = "main_console" /\ console_idx <= Len(console_files)
            /\ file_idx > Len(console_files[console_idx].files)
            /\ console_tables = ConsoleTablesOf(<< >>, console_files[console_idx].files)
            /\ database' # database =>
                 database' = Put(database, console_files[console_idx].console,
                                 ConsoleGames(console_files[console_idx].files)) ]_vars

\* main has written the file of a console with two files that both gave
\* records
C11_Witness ==
    /\ pc = "main_done"
    /\ \E i \in 1..Len(console_files) :
          /\ Len(Contributing(console_files[i].files)) >= 2
          /\ console_files[i].console \in DOMAIN database

\* C12: when the extraction of a document raises, the document gives no
\* record and main goes on: the files written are those main writes for
\* the html files without the documents whose extraction raises.
C12_FailingDocumentAbsent ==
    pc = "main_done" => database = MainDatabase(Extractable(html_files))

\* main is through a console where the extraction of the first file raised
\* and a later file gave the records that are written
C12_Witness ==
    /\ pc = "main_done"
    /\ \E i \in 1..Len(console_files) :
          /\ Len(console_files[i].files) >= 2
          /\ Extracted[console_files[i].files[1].doc].raises
          /\ Contributing(console_files[i].files) # << >>
          /\ console_files[i].console \in DOMAIN database

(***************************************************************************)
(* analyze_table_structure on the tables parse_game_table is given         *)
(***************************************************************************)

\* the structure of the table has been computed
Analysed == pc = "table_rows" /\ IsGameTable

\* the names a cell of a region header row holds
RegionTokens ==
    {"japan", "jp", "j", "north america", "na", "north", "europe", "eu", "pal",
     "australasia", "australia", "brazil", "br"}

\* every cell of the row holds the name of a region and nothing else
IsRegionHeaderRow(cells) ==
    /\ cells # << >>
    /\ \A i \in 1..Len(cells) : Strip(HeaderCellText(cells[i])) \in RegionTokens

\* C13 as stated: for a table with the header Title, Developer, Publisher,
\* JP, NA, PAL, with a data row and without row headers, the structure is
\* title 0, developer 1, publisher 2, jp 3, na 4, pal 5 and no region
\* header row, whatever the data rows hold
C13_PlainHeaderColumns ==
    (Analysed /\ the_table.rows[1] = HeaderPlain /\ ~UsesRowHeaders(the_table.rows)) =>
        /\ the_structure.title_col = 0 /\ the_structure.developer_col = 1
        /\ the_structure.publisher_col = 2 /\ the_structure.jp_col = 3
        /\ the_structure.na_col = 4 /\ the_structure.pal_col = 5
        /\ ~the_structure.has_region_header_row

\* C14 as stated: has_region_header_row is set exactly when the row after
\* the header row is a region header row, so that the data rows
\* parse_game_table reads start after the header row when that row holds
\* the data of a game
C14_RegionRowExactly ==
    Analysed =>
        /\ the_structure.has_region_header_row <=> IsRegionHeaderRow(the_table.rows[2])
        /\ StartIdx(the_structure) = 2 => IsRegionHeaderRow(the_table.rows[2])

\* the header cell spans the release dates of the regions
SpansReleaseDates(cell) ==
    /\ IntAttr(cell.rowspan) < 2
    /\ Contains(HeaderCellText(cell), "release") /\ Contains(HeaderCellText(cell), "date")

\* the position of the release-date span in the header row, or one past
\* the row
ReleaseDateSpanAt(cells) ==
    IF \E i \in 1..Len(cells) : SpansReleaseDates(cells[i])
    THEN CHOOSE i \in 1..Len(cells) :
             SpansReleaseDates(cells[i]) /\ \A j \in 1..(i - 1) : ~SpansReleaseDates(cells[j])
    ELSE Len(cells) + 1

\* the columns a header cell takes in a data row
DataWidth(cell) == IF IntAttr(cell.rowspan) >= 2 THEN 1 ELSE IntAttr(cell.colspan)

RECURSIVE WidthOf(_, _)
\* the columns the header cells at the positions in S take in a data row
WidthOf(cells, S) ==
    IF S = {} THEN 0
    ELSE LET i == CHOOSE j \in S : TRUE
         IN  DataWidth(cells[i]) + WidthOf(cells, S \ {i})

\* the region field a cell of the region row names with its whole text
RegionField ==
    [t \in {"jp", "j", "na", "pal", "eu", "europe", "br", "brazil"} |->
        CASE t \in {"jp", "j"} -> "jp_col"
          [] t = "na" -> "na_col"
          [] t = "pal" -> "pal_col"
          [] t \in {"eu", "europe"} -> "europe_col"
          [] t \in {"br", "brazil"} -> "brazil_col"]

\* the text of the k-th cell of the region row
RegionText(k) == Strip(HeaderCellText(the_table.rows[2][k]))

\* the cells of the region row that name a region field, each the last of
\* its field
NamingCells ==
    { k \in 1..Len(the_table.rows[2]) :
        /\ RegionText(k) \in DOMAIN RegionField
        /\ \A j \in (k + 1)..Len(the_table.rows[2]) :
              RegionText(j) \in DOMAIN RegionField => RegionField[RegionText(j)] # RegionField[RegionText(k)] }

\* the first cell of the region row that names a region
FirstRegionCell ==
    CHOOSE k \in 1..Len(the_table.rows[2]) :
        IsRegionCell(the_table.rows[2][k])
            /\ \A j \in 1..(k - 1) : ~IsRegionCell(the_table.rows[2][j])

\* C15 as stated: with a region header row, the index of a region field is
\* the number of columns of the header row that carry a row-span into the
\* data rows or precede the release-date span, plus the offset of the
\* region cell within the region row
C15_RegionIndexAsStated ==
    (Analysed /\ the_structure.has_region_header_row) =>
        \A k \in NamingCells :
            the_structure[RegionField[RegionText(k)]] =
                WidthOf(the_table.rows[1],
                        { i \in 1..Len(the_table.rows[1]) :
                            \/ IntAttr(the_table.rows[1][i].rowspan) >= 2
                            \/ i < ReleaseDateSpanAt(the_table.rows[1]) })
                    + (k - 1)

\* C15 (amended): when the second row is taken for a region header row,
\* the index of a region field is the number of columns that the header
\* cells before the release-date span take in a data row (one for a cell
\* with a row-span of two or more, its colspan for any other), plus the
\* offset of the region cell from the first region cell of the region row;
\* the header cells after the release-date span are not counted.  For the
\* header Title, Developer, Publisher, Release date (colspan 3), with or
\* without a column of references after it, and the region row JP, NA, PAL
\* this is jp 3, na 4, pal 5.
C15_RegionIndex ==
    (Analysed /\ the_structure.has_region_header_row) =>
        /\ \A k \in NamingCells :
              the_structure[RegionField[RegionText(k)]] =
                  WidthOf(the_table.rows[1], 1..(ReleaseDateSpanAt(the_table.rows[1]) - 1))
                      + (k - FirstRegionCell)
        /\ (the_table.rows[1] \in {HeaderSpanned, HeaderSpannedRef}
                /\ the_table.rows[2] = RegionRow) =>
              /\ the_structure.jp_col = 3
              /\ the_structure.na_col = 4
              /\ the_structure.pal_col = 5

\* the structure of a table with a column of references after the release
\* dates has been computed from its region row
C15_Witness ==
    /\ Analysed /\ the_structure.has_region_header_row
    /\ the_table.rows[1] = HeaderSpannedRef /\ the_table.rows[2] = RegionRow
    /\ Len(the_table.rows) > 2
    /\ the_structure.pal_col = 5

\* the fields of the structure that hold a column, brazil_col and br_col
\* being the one field of Brazil
SemanticColumns == ColumnKeys \ {"br_col"}

\* C16 as stated: no index of a header cell is held by two different
\* fields of the structure analyze_table_structure returns
C16_OneFieldPerHeaderCell ==
    Analysed =>
        \A f1, f2 \in SemanticColumns :
            (f1 # f2 /\ the_structure[f1] # NoCol) => the_structure[f1] # the_structure[f2]

(***************************************************************************)
(* extract_cell_data on the rows parse_game_table reads                    *)
(***************************************************************************)

\* the column of the structure each field of a record is read from
FieldColumn ==
    [developer |-> "developer_col", publisher |-> "publisher_col",
     first_released |-> "first_released_col", jp_release |-> "jp_col",
     na_release |-> "na_col", pal_release |-> "pal_col", europe_release |-> "europe_col",
     australasia_release |-> "australasia_col", brazil_release |-> "brazil_col",
     br_release |-> "brazil_col"]

TextFields == {"developer", "publisher"}

DateFields == DOMAIN FieldColumn \ TextFields

\* parse_game_table has added the record of the row at row_idx
RowAdded == pc = "table_rows" /\ IsGameTable /\ parsed' # parsed

\* the field of the record g is what the cell gives: the text of the cell
\* for developer and publisher, its date for a date field, which is left
\* out when the cell has no date
ReadFrom(g, field, cell) ==
    IF field \in TextFields
    THEN field \in DOMAIN g /\ g[field] = get_link_or_italic_text(cell)
    ELSE IF parse_date_cell(cell) # ""
         THEN field \in DOMAIN g /\ g[field] = parse_date_cell(cell)
         ELSE field \notin DOMAIN g

\* the field of the record g is read at the position (from 0) of the cells,
\* and left out when the cells have no such position
ReadAt(g, field, cells, position) ==
    IF position >= 0 /\ position < Len(cells)
    THEN ReadFrom(g, field, cells[position + 1])
    ELSE field \notin DOMAIN g

\* C17 as stated: for a row that starts with a row header, under a
\* structure with row headers, the title is read from the row header and
\* every other field whose column i is mapped is read from position i - 1
\* of the cells after the row header
C17_ShiftedByOne ==
    [][ (RowAdded /\ RowHeaded(the_table.rows[row_idx], the_structure)) =>
            /\ parsed'[Len(parsed')]["title"] =
                   get_link_or_italic_text(the_table.rows[row_idx][1])
            /\ \A field \in DOMAIN FieldColumn :
                  the_structure[FieldColumn[field]] # NoCol =>
                      ReadAt(parsed'[Len(parsed')], field, Tail(the_table.rows[row_idx]),
                             the_structure[FieldColumn[field]] - 1) ]_vars

\* the position (from 1) in the row of the cell a column of the structure
\* is read from: a row header shifts the cells and the columns after
\* column 0 alike
SourceAt(cells, col) == IF RowHeaded(cells, the_structure) /\ col = 0 THEN 2 ELSE col + 1

\* the fields of the record whose column is mapped and in the row
MappedFields(cells) ==
    { field \in DOMAIN FieldColumn :
        /\ the_structure[FieldColumn[field]] # NoCol
        /\ SourceAt(cells, the_structure[FieldColumn[field]]) <= Len(cells) }

\* the cell the field is read from
SourceCell(cells, field) == cells[SourceAt(cells, the_structure[FieldColumn[field]])]

\* the text of the cell as the field reads it
SourceText(cell, field) ==
    IF field \in TextFields THEN get_link_or_italic_text(cell) ELSE clean_text(get_text(cell))

\* the cell has no sort value and no hidden text
PlainCell(cell) ==
    /\ cell.sort = ""
    /\ \A k \in 1..Len(cell.kids) : cell.kids[k].sort = << >> /\ ~cell.kids[k].hidden

\* C18 as stated: in the record extract_cell_data returns, a mapped field
\* other than the title is no key when the text of its cell is empty or
\* contains 'unreleased' in any case
C18_EmptyOrUnreleasedOmitted ==
    [][ RowAdded =>
            \A field \in MappedFields(the_table.rows[row_idx]) :
                (\/ SourceText(SourceCell(the_table.rows[row_idx], field), field) = ""
                 \/ Contains(Lower(SourceText(SourceCell(the_table.rows[row_idx], field), field)),
                             "unreleased"))
                    => field \notin DOMAIN parsed'[Len(parsed')] ]_vars

\* C18 (amended): in the record extract_cell_data returns, a mapped date
\* field is no key when its cell has no sort value and the text of the cell
\* is empty or is 'unreleased' in any case, and a date field that is a key
\* holds a date, never the empty string; developer and publisher are keys
\* whenever their column is mapped and in the row, and hold the text of
\* the cell, the empty string when the cell is empty.
C18_OmittedDates ==
    [][ RowAdded =>
            \A field \in MappedFields(the_table.rows[row_idx]) :
                IF field \in TextFields
                THEN /\ field \in DOMAIN parsed'[Len(parsed')]
                     /\ parsed'[Len(parsed')][field] =
                            SourceText(SourceCell(the_table.rows[row_idx], field), field)
                ELSE /\ (/\ PlainCell(SourceCell(the_table.rows[row_idx], field))
                         /\ Lower(SourceText(SourceCell(the_table.rows[row_idx], field), field))
                                \in {"", "unreleased"})
                            => field \notin DOMAIN parsed'[Len(parsed')]
                     /\ field \in DOMAIN parsed'[Len(parsed')]
                            => IsFullDate(parsed'[Len(parsed')][field]) ]_vars

\* parse_game_table has read a row with an unreleased PAL date and a row
\* with an empty developer cell: the first record has no PAL date, the
\* second has the empty developer
C18_Witness ==
    /\ pc = "table_parsed" /\ IsGameTable /\ Len(parsed) = 2
    /\ Len(the_table.rows) = 3 /\ the_table.rows[1] = HeaderPlain
    /\ Len(the_table.rows[2]) = 6 /\ Len(the_table.rows[3]) = 6
    /\ the_table.rows[2][6] = Td("Unreleased")
    /\ {"jp_release"} \subseteq DOMAIN parsed[1] /\ "pal_release" \notin DOMAIN parsed[1]
    /\ the_table.rows[3][2] = Td("")
    /\ "developer" \in DOMAIN parsed[2] /\ parsed[2]["developer"] = ""

(***************************************************************************)
(* find_game_tables on the tables of a document                            *)
(***************************************************************************)

\* find_game_tables has returned
Found == pc = "find_done"

\* a table of the first tier
IsPrimary(t) == t.id = "softwarelist" /\ Len(t.rows) > 5

\* the first cell of the row holds a link or an italic span
LinkedTitle(row) ==
    row # << >> /\ \E k \in 1..Len(row[1].kids) : row[1].kids[k].tag \in {"a", "i"}

\* the header row names a title and a developer or a publisher
ListingHeaders(t) ==
    /\ \E kw \in {"title", "game", "name"} : Contains(JoinHeaderTexts(t.rows[1]), kw)
    /\ \E kw \in {"developer", "publisher"} : Contains(JoinHeaderTexts(t.rows[1]), kw)

\* the first of the tables of the document that satisfy Q, or nothing
FirstOf(Q(_)) ==
    IF \E i \in 1..Len(soup) : Q(soup[i])
    THEN << soup[CHOOSE i \in 1..Len(soup) :
                     Q(soup[i]) /\ \A j \in 1..(i - 1) : ~Q(soup[j])] >>
    ELSE << >>

\* C19: when the document has a table with the softwarelist id and more
\* than 5 rows, find_game_tables returns exactly the tables of that kind,
\* in document order, and no table of the fallback
C19_PrimaryOnly ==
    (Found /\ \E i \in 1..Len(soup) : IsPrimary(soup[i])) =>
        tables_found = SelectSeq(soup, IsPrimary)

\* find_game_tables has returned the softwarelist table of a document whose
\* first table is one the fallback takes
C19_Witness ==
    /\ Found /\ Len(soup) = 2
    /\ soup[1].id = "" /\ IsGameListing(soup[1])
    /\ IsPrimary(soup[2])
    /\ tables_found = << soup[2] >>

\* the table as C20 describes the one the fallback takes
ListingAsStated(t) ==
    /\ Contains(t.class, "wikitable") /\ Len(t.rows) > 10
    /\ ListingHeaders(t)
    /\ Cardinality({ i \in 2..6 : LinkedTitle(t.rows[i]) }) >= 2

\* the table the fallback takes: the data rows counted have three cells or
\* more
ListingOfThreeCells(t) ==
    /\ Contains(t.class, "wikitable") /\ Len(t.rows) > 10
    /\ ListingHeaders(t)
    /\ Cardinality({ i \in 2..6 : Len(t.rows[i]) >= 3 /\ LinkedTitle(t.rows[i]) }) >= 2

\* C20 as stated: when the first tier finds nothing, find_game_tables
\* returns the first table with the wikitable class, more than 10 rows, a
\* header row with a title keyword and a developer or publisher keyword,
\* and two or more of its first five data rows with a link or an italic
\* span in the first cell; nothing when there is no such table
C20_FirstListingAsStated ==
    (Found /\ \A i \in 1..Len(soup) : ~IsPrimary(soup[i])) =>
        tables_found = FirstOf(ListingAsStated)

\* C20 (amended): as stated, with the data rows that count being those of
\* three cells or more with a link or an italic span in the first cell;
\* never more than one table is returned.
C20_FirstListing ==
    (Found /\ \A i \in 1..Len(soup) : ~IsPrimary(soup[i])) =>
        /\ tables_found = FirstOf(ListingOfThreeCells)
        /\ Len(tables_found) <= 1

\* find_game_tables has returned the second of two tables, the first being
\* a listing with data rows of two cells; and it has returned the first of
\* two tables that both qualify
C20_Witness ==
    /\ Found /\ Len(soup) = 2 /\ tables_found # << >>
    /\ \A i \in 1..2 : ~IsPrimary(soup[i])
    /\ \/ ListingAsStated(soup[1]) /\ ~ListingOfThreeCells(soup[1])
             /\ tables_found = << soup[2] >>
       \/ ListingOfThreeCells(soup[1]) /\ ListingOfThreeCells(soup[2])
             /\ soup[1] # soup[2] /\ tables_found = << soup[1] >>

(***************************************************************************)
(* parse_date_cell on the cells of a release-date column                   *)
(***************************************************************************)

\* data-sort-value attributes of a cell: none, a zero-padded YYYYMMDD, a word
CellSorts == {"", "0000000019990801", "Banana"}

\* data-sort-value attributes of a span inside the cell
SpanSorts == {"19960301", "000000001996-03-01-0000", "1996-03-01"}

\* the spans a date cell carries in front of its text: << >> for none
SortSpans ==
    {<< >>} \cup { << Span(text, hidden, << key >>) >> :
                     text \in {"", "Spring 1996"}, hidden \in BOOLEAN, key \in SpanSorts }

\* August 1, 1999 in the six formats of date_patterns
FirstDateTexts ==
    {"August 1, 1999", "August 1 1999", "08/01/1999", "1999-08-01", "19990801",
     "August 1999"}

\* March 1, 2000 in the six formats of date_patterns
SecondDateTexts ==
    {"March 1, 2000", "March 1 2000", "03/01/2000", "2000-03-01", "20000301",
     "March 2000"}

\* <td data-sort-value=own> spans text </td>
DateCell(own, spans, text) ==
    [Cell("td", "", spans \o (IF text = "" THEN << >> ELSE << Node("text", text) >>))
        EXCEPT !.sort = own]

\* a cell with two dates, the second after a line break
TwoDates(first, second) == Td(first \o "\n" \o second)

\* the cells parse_date_cell is called with
DateCellPool ==
    { DateCell(own, spans, text) :
        own \in CellSorts, spans \in SortSpans, text \in {"", "TBA", "August 1, 1999"} }
    \cup { Td(text) : text \in FirstDateTexts \cup SecondDateTexts }
    \cup { TwoDates(first, second) : first \in FirstDateTexts, second \in SecondDateTexts }

InitDate ==
    /\ pc = "date_call"
    /\ date_cell \in DateCellPool
    /\ date_result = ""
    /\ DedupIdle /\ NormIdle /\ TableIdle /\ MainIdle /\ FindIdle
    /\ SiteIdle /\ CheckIdle

\* date_str = parse_date_cell(cell)
ParseDateCell ==
    /\ pc = "date_call"
    /\ date_result' = parse_date_cell(date_cell)
    /\ pc' = "date_done"
    /\ UNCHANGED << date_cell, dedupVars, normVars, tableVars, mainVars, findVars,
                    siteVars, checkVars >>

NextDate == ParseDateCell

SpecDate == InitDate /\ [][NextDate]_vars

RECURSIVE NestedSortKey(_)
\* the data-sort-value of the first span of the cell that has one, hidden or
\* visible: << key >> or << >>
NestedSortKey(kids) ==
    IF kids = << >> THEN << >>
    ELSE IF Head(kids).tag = "span" /\ Head(kids).sort # << >> THEN Head(kids).sort
    ELSE NestedSortKey(Tail(kids))

\* a sort key read by the rule of lines 138-159 for the key of the cell itself
SortKeyDate(key) == IF key = << >> THEN << >> ELSE CellSortDate([sort |-> key[1]])

\* C21: when the cell has no parseable sort key of its own and a nested span,
\* hidden or visible, has a sort key that the rule for the cell's own key reads
\* as a date, parse_date_cell returns that date.
C21_NestedSortKey ==
    (/\ pc = "date_done"
     /\ CellSortDate(date_cell) = << >>
     /\ SortKeyDate(NestedSortKey(date_cell.kids)) # << >>)
        => date_result = SortKeyDate(NestedSortKey(date_cell.kids))[1]

\* C22: when the text of the cell holds two dates, parse_date_cell returns the
\* one that comes first in the text, whatever the formats of the two.
C22_FirstDateInText ==
    \A first \in FirstDateTexts, second \in SecondDateTexts :
        (pc = "date_done" /\ date_cell = TwoDates(first, second))
            => date_result = "1999-08-01"

(***************************************************************************)
(* build_site.load_all_games on the database directory main leaves         *)
(***************************************************************************)

\* file.endswith(suffix)
EndsWith(file, suffix) == OccursAt(file, suffix, Len(file) - Len(suffix) + 1)

RECURSIVE Replace(_, _)
\* s.replace(old, '')
Replace(s, old) ==
    IF s = "" THEN ""
    ELSE IF OccursAt(s, old, 1) THEN Replace(Slice(s, Len(old) + 1, Len(s)), old)
    ELSE Head(s) \o Replace(Tail(s), old)

\* extract_games.py lines 905-908: the file of each console of the database,
\* database/{console_name}.json, next to the files that were there before
DatabaseDir(db, others) ==
    [file \in { console \o ".json" : console \in DOMAIN db } |->
        db[Slice(file, 1, Len(file) - 5)]] @@ others

\* the orders in which os.walk can list the files of the directory
Listings(dir) ==
    { files \in [1..Cardinality(DOMAIN dir) -> DOMAIN dir] :
        \A i, j \in DOMAIN files : files[i] = files[j] => i = j }

RECURSIVE LoadFiles(_, _, _)
\* build_site.py lines 24-35: the loop over the files, in the order listed
LoadFiles(dir, files, loaded) ==
    IF files = << >> THEN loaded
    ELSE IF EndsWith(Head(files), "_all.json")
         THEN LoadFiles(dir, Tail(files),
                        Put(loaded, Replace(Head(files), "_all.json"),
                            [games |-> dir[Head(files)], count |-> Len(dir[Head(files)])]))
         ELSE LoadFiles(dir, Tail(files), loaded)

\* build_site.py lines 14-37
load_all_games(dir, files) == LoadFiles(dir, files, EmptyDict)

\* how many html files the folder holds at most when the site is built
MaxSiteFiles == 2

\* the html folders main runs on before the site is built
SiteFolders == { files \in HtmlFolders : Len(files) <= MaxSiteFiles }

\* files left in the database directory by a run that wrote *_all.json files
OldFilePool ==
    {EmptyDict, "gb_all.json" :> << [title |-> "Omega", release_date |-> "1990-04-01"] >>}

InitSite ==
    /\ pc = "main_call"
    /\ html_files \in SiteFolders
    /\ console_files = << >> /\ console_idx = 0 /\ file_idx = 0
    /\ console_tables = << >> /\ table_idx = 0 /\ all_games = << >>
    /\ database = EmptyDict
    /\ old_files \in OldFilePool
    /\ all_data = EmptyDict
    /\ DedupIdle /\ NormIdle /\ TableIdle /\ FindIdle
    /\ DateIdle /\ CheckIdle

\* build_site: all_data = load_all_games(), run after extract_games.main
LoadAllGames ==
    /\ pc = "main_done"
    /\ \E files \in Listings(DatabaseDir(database, old_files)) :
          all_data' = load_all_games(DatabaseDir(database, old_files), files)
    /\ pc' = "site_loaded"
    /\ UNCHANGED << old_files, mainVars, dedupVars, normVars, tableVars, findVars,
                    dateVars, checkVars >>

NextSite == NextMain \/ LoadAllGames

SpecSite == InitSite /\ [][NextSite]_vars

\* C23: once the site generator has loaded the database, every console whose
\* file main wrote is among the consoles it loaded, with the games of that file.
C23_WrittenFilesLoaded ==
    pc = "site_loaded" =>
        \A console \in DOMAIN database :
            /\ console \in DOMAIN all_data
            /\ all_data[console].games = database[console]

(***************************************************************************)
(* analyze_table_structure on a header that names Europe and PAL together  *)
(***************************************************************************)

\* a cell of the row reads Europe/PAL
NamesEuropeAndPal(cells) ==
    \E k \in 1..Len(cells) : Strip(HeaderCellText(cells[k])) = "europe/pal"

\* how many of europe_col and pal_col are set
EuropePalClaims(structure) ==
    Cardinality({ f \in {"europe_col", "pal_col"} : structure[f] # NoCol })

\* C24: a header cell Europe/PAL, in the single header row or in the region
\* header row, leaves exactly one of europe_col and pal_col set.
C24_EuropePalOnce ==
    (/\ Analysed
     /\ \/ NamesEuropeAndPal(the_table.rows[1])
        \/ the_structure.has_region_header_row /\ NamesEuropeAndPal(the_table.rows[2]))
        => EuropePalClaims(the_structure) = 1

(***************************************************************************)
(* deduplicate_games as a function of its input list                       *)
(***************************************************************************)

\* the positions of the list whose record has the key
IndicesOf(list, key) == { i \in 1..Len(list) : create_game_key(list[i]) = key }

\* the least position of a non-empty set of positions
Least(S) == CHOOSE i \in S : \A j \in S : i <= j

\* the position of the record the claim selects for the key: the first one
\* with a release date, or the first one when none has a release date
SelectedIndex(list, key) ==
    LET dated == { i \in IndicesOf(list, key) : Get(list[i], "release_date") # "" }
    IN  IF dated # {} THEN Least(dated) ELSE Least(IndicesOf(list, key))

\* C25: for every key of the input, the output holds one record of that key,
\* it is the first input record of the key with a release date (the first of
\* the key when none has one), unchanged, and the records of the output
\* stand in the order in which their keys first appear in the input.
C25_FirstDatedRecord ==
    pc = "dedup_done" =>
        /\ \A i \in 1..Len(games) :
              LET key == create_game_key(games[i])
              IN  /\ Cardinality(IndicesOf(result, key)) = 1
                  /\ result[Least(IndicesOf(result, key))] = games[SelectedIndex(games, key)]
        /\ \A j1, j2 \in 1..Len(result) :
              j1 < j2 =>
                  Least(IndicesOf(games, create_game_key(result[j1])))
                      < Least(IndicesOf(games, create_game_key(result[j2])))

(***************************************************************************)
(* main lines 873-896: the tables of one console deduplicated one by one,  *)
(* joined and deduplicated again                                           *)
(***************************************************************************)

\* how many records a table of the console holds at most
MaxStageGames == 2

\* records of the tables of one console, normalized as main normalizes them:
\* two records of one title with different dates, a record whose key is the
\* key of those two, and a record of another game
StageGamePool ==
    { normalize_game_data(g) :
        g \in { [title |-> "|||", jp_release |-> "1999-08-01"],
                [title |-> "|||", pal_release |-> "2000-01-15"],
                [title |-> "|", developer |-> "|", publisher |-> "|"],
                [title |-> "a b", developer |-> "d"] } }

\* the non-empty lists a table of the console holds (line 867: a table
\* without games is not entered)
StageLists == UNION { [1..n -> StageGamePool] : n \in 1..MaxStageGames }

\* console_tables once the files of the console are through
StageTables ==
    { << [name |-> "licensed", games |-> gs] >> : gs \in StageLists }
    \cup { << [name |-> "licensed", games |-> gs], [name |-> "unreleased", games |-> us] >> :
             gs \in StageLists, us \in StageLists }

InitStages ==
    /\ pc = "stages_tables"
    /\ console_tables \in StageTables
    /\ table_idx = 1 /\ all_games = << >>
    /\ html_files = << >> /\ console_files = << >> /\ console_idx = 0 /\ file_idx = 0
    /\ database = EmptyDict
    /\ DedupIdle /\ NormIdle /\ TableIdle /\ FindIdle
    /\ DateIdle /\ SiteIdle /\ CheckIdle

\* lines 875-888: one table of the console deduplicated and added
StageTable ==
    /\ pc = "stages_tables" /\ table_idx <= Len(console_tables)
    /\ all_games' = all_games \o Titled(deduplicate_games(console_tables[table_idx].games))
    /\ table_idx' = table_idx + 1
    /\ UNCHANGED << pc, html_files, console_files, console_idx, file_idx, console_tables,
                    database, dedupVars, normVars, tableVars, findVars,
                    dateVars, siteVars, checkVars >>

\* lines 891-893: the final deduplication across the tables
StageFinal ==
    /\ pc = "stages_tables" /\ table_idx > Len(console_tables)
    /\ all_games' = IF all_games # << >> THEN deduplicate_games(all_games) ELSE all_games
    /\ pc' = "stages_done"
    /\ UNCHANGED << html_files, console_files, console_idx, file_idx, console_tables,
                    table_idx, database, dedupVars, normVars, tableVars, findVars,
                    dateVars, siteVars, checkVars >>

NextStages == StageTable \/ StageFinal

SpecStages == InitStages /\ [][NextStages]_vars

RECURSIVE RawGames(_)
\* the lists of the tables, joined as they are
RawGames(ct) == IF ct = << >> THEN << >> ELSE Head(ct).games \o RawGames(Tail(ct))

\* C26: deduplicating every table, joining the results and deduplicating
\* again gives the list that one deduplicate_games call gives on the joined
\* lists of the tables.
C26_TwoStagesAsOne ==
    pc = "stages_done" => all_games = deduplicate_games(RawGames(console_tables))

(***************************************************************************)
(* the two conditions of line 615 on a key collision                       *)
(***************************************************************************)

\* the record deduplicate_games looks at next meets a stored record of its key
Colliding ==
    /\ pc = "dedup_loop" /\ pos < Len(games)
    /\ create_game_key(games[pos + 1]) \in DOMAIN seen

\* the first condition of line 615
MoreComplete(existing, g) == Completeness(g) > Completeness(existing)

\* the second condition of line 615
GainsReleaseDate(existing, g) ==
    Strip(Get(existing, "release_date")) = "" /\ Strip(Get(g, "release_date")) # ""

\* C27: on a key collision the incoming record has strictly more non-empty
\* core fields than the stored one exactly when the stored one has no
\* release date and the incoming one has.
C27_ConditionsCoincide ==
    Colliding =>
        (MoreComplete(seen[create_game_key(games[pos + 1])], games[pos + 1])
            <=> GainsReleaseDate(seen[create_game_key(games[pos + 1])], games[pos + 1]))

(***************************************************************************)
(* normalize_game_data applied to its own result                           *)
(***************************************************************************)

\* the position of first_released among the date fields
FirstReleased == CHOOSE i \in 1..Len(date_fields) : date_fields[i] = "first_released"

\* the second pass gives the record of the first pass
SecondPassSame == normalize_game_data(normalized) = normalized

\* C28 as stated: for every record, normalize_game_data applied to the
\* normalized record returns it unchanged
C28_IdempotentAsStated == pc = "norm_done" => SecondPassSame

\* C28 (amended): a second pass changes no field other than release_date, and
\* not release_date either when first_released is not populated or every
\* populated date field holds a full date; release_date changes only when
\* the first pass took it from first_released and another date field holds a
\* different string that reads as the same date or, no field reading as a
\* date, is populated.
C28_IdempotentOnFullDates ==
    pc = "norm_done" =>
        /\ Without(normalize_game_data(normalized), "release_date")
               = Without(normalized, "release_date")
        /\ (FirstReleased \notin Populated \/ \A i \in Populated : IsFullDate(DateValue(i)))
               => SecondPassSame
        /\ ~SecondPassSame =>
               /\ normalized["release_date"] = DateValue(FirstReleased)
               /\ \E i \in Populated :
                     /\ date_fields[i] \notin {"first_released", "release_date"}
                     /\ normalize_game_data(normalized)["release_date"] = DateValue(i)
                     /\ DateValue(i) # DateValue(FirstReleased)
                     /\ DateOrdOf[i] = DateOrdOf[FirstReleased]

\* release_date was taken from first_released, a later date stands in
\* another field, first_released is gone and the second pass changes nothing
C28_Witness ==
    /\ pc = "norm_done"
    /\ FirstReleased \in Populated /\ Cardinality(Populated) = 2
    /\ \A i \in Populated : IsFullDate(DateValue(i))
    /\ \E i \in Populated : DateOrdOf[i] > DateOrdOf[FirstReleased]
    /\ normalized["release_date"] = DateValue(FirstReleased)
    /\ "first_released" \notin DOMAIN normalized
    /\ SecondPassSame

(***************************************************************************)
(* the columns of the structure and the cells the fields are read from     *)
(***************************************************************************)

\* the semantic field a key of the structure stands for, brazil_col and
\* br_col being one field
SemanticField(key) == IF key = "br_col" THEN "brazil_col" ELSE key

\* the position (from 1) in the row of the cell the title is read from
TitleSourceAt(cells) == IF RowHeaded(cells, the_structure) THEN 1 ELSE the_structure.title_col + 1

\* the rows parse_game_table reads that have cells
DataRowsRead ==
    { i \in (StartIdx(the_structure) + 1)..Len(the_table.rows) : the_table.rows[i] # << >> }

\* C29: in the structure analyze_table_structure returns no two semantic
\* fields hold the same column index, and in no data row is one cell read
\* into two different fields of the record.
C29_NoCellReadTwice ==
    Analysed =>
        /\ \A k1, k2 \in ColumnKeys :
              (SemanticField(k1) # SemanticField(k2) /\ the_structure[k1] # NoCol)
                  => the_structure[k1] # the_structure[k2]
        /\ \A i \in DataRowsRead :
              \A f1, f2 \in MappedFields(the_table.rows[i]) :
                  FieldColumn[f1] # FieldColumn[f2] =>
                      SourceAt(the_table.rows[i], the_structure[FieldColumn[f1]])
                          # SourceAt(the_table.rows[i], the_structure[FieldColumn[f2]])
        /\ \A i \in DataRowsRead :
              \A f \in MappedFields(the_table.rows[i]) :
                  the_structure.title_col # NoCol =>
                      SourceAt(the_table.rows[i], the_structure[FieldColumn[f]])
                          # TitleSourceAt(the_table.rows[i])

(***************************************************************************)
(* check_duplicates.find_duplicates_across_files.  A file of the database  *)
(* is its path and the list json.load gives for it; the files stand in the *)
(* order in which os.walk lists them.                                      *)
(***************************************************************************)

\* check_duplicates.normalize_game_data: the game without its category, as
\* json.dumps with sorted keys writes it.  Two records of string fields have
\* the same dump exactly when they have the same keys and values, so the
\* record without category stands for the string.
ComparisonKey(g) == Without(g, "category")

\* lines 36-49: (i, game) for every game whose key was seen earlier in the file
find_duplicates_in_file(data) ==
    LET F[n \in 0..Len(data)] ==
            IF n = 0 THEN << >>
            ELSE IF \E j \in 1..(n - 1) : ComparisonKey(data[j]) = ComparisonKey(data[n])
                 THEN Append(F[n - 1], << n - 1, data[n] >>)
                 ELSE F[n - 1]
    IN  F[Len(data)]

RECURSIVE GameEntries(_)
\* lines 72-75: every game of every file with its file name and index, in
\* the order of the two loops
GameEntries(files) ==
    IF files = << >> THEN << >>
    ELSE [i \in 1..Len(Head(files).games) |->
             [filename |-> Head(files).path, index |-> i - 1, game |-> Head(files).games[i]]]
         \o GameEntries(Tail(files))

\* game_locations[normalized]: the (filename, i) of the entries with that key
LocationsOf(entries, key) ==
    LET hits == SelectSeq(entries, LAMBDA e : ComparisonKey(e.game) = key)
    IN  [k \in 1..Len(hits) |-> << hits[k].filename, hits[k].index >>]

\* the entries that are the first of their key: the items of game_locations
\* in insertion order, each with the game of its first location
FirstEntries(entries) ==
    LET F[n \in 0..Len(entries)] ==
            IF n = 0 THEN << >>
            ELSE IF \E j \in 1..(n - 1) :
                        ComparisonKey(entries[j].game) = ComparisonKey(entries[n].game)
                 THEN F[n - 1]
                 ELSE Append(F[n - 1], entries[n])
    IN  F[Len(entries)]

\* line 95: len(locations) > 1
IsReported(locations) == Len(locations) > 1

\* lines 94-104: an entry for every game with more than one location
CrossFileEntries(entries) ==
    LET firsts == FirstEntries(entries)
        F[n \in 0..Len(firsts)] ==
            IF n = 0 THEN << >>
            ELSE IF IsReported(LocationsOf(entries, ComparisonKey(firsts[n].game)))
                 THEN Append(F[n - 1],
                             [game |-> firsts[n].game,
                              locations |-> LocationsOf(entries, ComparisonKey(firsts[n].game)),
                              count |-> Len(LocationsOf(entries, ComparisonKey(firsts[n].game)))])
                 ELSE F[n - 1]
    IN  F[Len(firsts)]

\* line 107: sort(key=count, reverse=True), which keeps the order of equal counts
SortByCount(dups) ==
    LET Insert(sorted, x) ==
            LET before == { i \in 1..Len(sorted) : sorted[i].count >= x.count }
                n == Cardinality(before)
            IN  SubSeq(sorted, 1, n) \o << x >> \o SubSeq(sorted, n + 1, Len(sorted))
        F[n \in 0..Len(dups)] == IF n = 0 THEN << >> ELSE Insert(F[n - 1], dups[n])
    IN  F[Len(dups)]

\* lines 88-91: the duplicates of every file that has some
InternalDuplicates(files) ==
    LET with == { k \in 1..Len(files) : find_duplicates_in_file(files[k].games) # << >> }
    IN  [filename \in { files[k].path : k \in with } |->
            find_duplicates_in_file(
                files[CHOOSE k \in with : files[k].path = filename].games)]

RECURSIVE TotalEntries(_)
\* sum(len(games) for games in all_data.values())
TotalEntries(files) ==
    IF files = << >> THEN 0 ELSE Len(Head(files).games) + TotalEntries(Tail(files))

\* lines 64-109
find_duplicates_across_files(files) ==
    [internal_duplicates |-> InternalDuplicates(files),
     cross_file_duplicates |-> SortByCount(CrossFileEntries(GameEntries(files))),
     stats |-> [total_unique_games |-> Len(FirstEntries(GameEntries(files))),
                total_game_entries |-> TotalEntries(files)]]

\* how many games a file of the database holds at most
MaxEntries == 2

\* games of the database: one game under two categories, and another game
CheckGamePool ==
    { [title |-> "Alpha", release_date |-> "1999-08-01", category |-> "licensed"],
      [title |-> "Alpha", release_date |-> "1999-08-01", category |-> "unreleased"],
      [title |-> "Beta", release_date |-> ""] }

CheckGameLists == UNION { [1..n -> CheckGamePool] : n \in 0..MaxEntries }

\* the database directory: two files, in either order of listing
CheckDatabases ==
    { << [path |-> paths[1], games |-> first], [path |-> paths[2], games |-> second] >> :
        paths \in { << "database/nes.json", "database/snes.json" >>,
                    << "database/snes.json", "database/nes.json" >> },
        first \in CheckGameLists, second \in CheckGameLists }

InitCheck ==
    /\ pc = "check_call"
    /\ json_files \in CheckDatabases
    /\ results = EmptyDict
    /\ DedupIdle /\ NormIdle /\ TableIdle /\ MainIdle /\ FindIdle
    /\ DateIdle /\ SiteIdle

\* results = find_duplicates_across_files()
FindDuplicates ==
    /\ pc = "check_call"
    /\ results' = find_duplicates_across_files(json_files)
    /\ pc' = "check_done"
    /\ UNCHANGED << json_files, dedupVars, normVars, tableVars, mainVars, findVars,
                    dateVars, siteVars >>

NextCheck == FindDuplicates

SpecCheck == InitCheck /\ [][NextCheck]_vars

\* the files in which the game (its category apart) stands
FilesHolding(g) ==
    { json_files[k].path : k \in { k \in 1..Len(json_files) :
        \E i \in 1..Len(json_files[k].games) :
            ComparisonKey(json_files[k].games[i]) = ComparisonKey(g) } }

\* the game is among the internal duplicates of the file
InternalIn(filename, g) ==
    /\ filename \in DOMAIN results.internal_duplicates
    /\ \E k \in 1..Len(results.internal_duplicates[filename]) :
          ComparisonKey(results.internal_duplicates[filename][k][2]) = ComparisonKey(g)

\* C30: every entry of cross_file_duplicates has locations in two files or
\* more, and a game that is repeated inside one file and stands in no other
\* file is among the internal duplicates of that file and in no entry of
\* cross_file_duplicates.
C30_CrossFileMeansTwoFiles ==
    pc = "check_done" =>
        /\ \A k \in 1..Len(results.cross_file_duplicates) :
              LET locations == results.cross_file_duplicates[k].locations
              IN  Cardinality({ locations[i][1] : i \in 1..Len(locations) }) >= 2
        /\ \A f \in 1..Len(json_files) :
              \A i, j \in 1..Len(json_files[f].games) :
                  (/\ i < j
                   /\ ComparisonKey(json_files[f].games[i]) = ComparisonKey(json_files[f].games[j])
                   /\ FilesHolding(json_files[f].games[i]) = {json_files[f].path})
                      => /\ InternalIn(json_files[f].path, json_files[f].games[i])
                         /\ \A k \in 1..Len(results.cross_file_duplicates) :
                               ComparisonKey(results.cross_file_duplicates[k].game)
                                   # ComparisonKey(json_files[f].games[i])

=============================================================================
